---------------------------- MODULE Spec2Model ----------------------------
(***************************************************************************)
(* Retrieval Context Engine of debateai-backend.                           *)
(*                                                                         *)
(*   ChunkSpec    services/rag_store.py  _chunk_text, one loop pass a step *)
(*   DecideSpec   services/debate_engine.py  decide_rag_mode, one call     *)
(*   EngineSpec   routers/debate.py  calls on the shared DebateEngine      *)
(*   StoreSpec    services/rag_store.py  the store, one client thread      *)
(*   ThreadsSpec  services/rag_store.py  the store, concurrent threads     *)
(*   SweepSpec    services/rag_store.py  the sweeper, sweeps that may fail *)
(*   ProcessSpec  main.py, routers/debate.py  the store without a sweeper  *)
(*   SessionsSpec services/rag_store.py  a session per thread, no sweeper  *)
(*   IngestSpec   services/rag_store.py  add_doc running _chunk_text       *)
(*   SearchSpec   services/rag_store.py  queries on stores of four chunks  *)
(*                                                                         *)
(* Strings are sequences of one-character strings.                         *)
(***************************************************************************)
EXTENDS Integers, Sequences, FiniteSets, TLC

VARIABLES
    ck_pc,       \* _chunk_text: "start", "test" (while i < n), "body", "done"
    ck_raw,      \* the text argument as passed
    ck_size,     \* chunk_size
    ck_overlap,  \* overlap
    ck_text,     \* text after line 93
    ck_n,        \* n
    ck_i,        \* i
    ck_out,      \* out, its first OutCap entries
    ck_win,      \* the (i, j) of each entry of out (history)
    ck_ret,      \* the returned list
    \* DebateEngine.decide_rag_mode, one record per call
    dc_pc,       \* "idle", "await" (suspended in the classifier call), "done", "raised"
    dc_args,     \* the call's arguments
    dc_ret,      \* the dict the call returned
    dc_cache,    \* self.rag_decision_cache: cache key -> {mode, cite_style}
    dc_last,     \* history: the latest classifier outcome and the call it went to
    dc_invoked,  \* history: the call reached the classifier
    dc_prev,     \* history: what the first earlier-returned call with identical
                 \*          inputs had returned when this call began
    dc_order,    \* history: the calls in the order they returned
    dc_overlap,  \* history: two classifier calls were in flight at once
    dc_ever,     \* history: every key the cache has held
    \* services/rag_store.py
    now,         \* time.time()
    registry,    \* _STORES: session id -> store object (0: no entry)
    stores_lock, \* _STORES_LOCK: the thread holding it (0: free)
    stores,      \* the store objects: chunks, index, last_used, lock
    th_pc,       \* per thread: where its current call stands
    th_call,     \* per thread: the call and its arguments
    th_store,    \* per thread: the store object the call holds (0: none)
    sw_pc,       \* the sweeper thread: "sleep", "woke", "locked", "listed"
    sw_cutoff,   \* the sweeper's cutoff
    sw_to_del,   \* the sweeper's to_del
    returned,    \* the call that returns in this step, and what it returns
    purged,      \* history, per session: delete_all_for_owner(s, "alice") has
                 \* returned and no add_doc for "alice" has stored chunks since
    th_mark,     \* history, per thread: no add_doc for "alice" stored chunks in
                 \* the call's session since the call began (a delete), or
                 \* `purged` held when it began and ever since (a read)
    model,       \* _model: "none" or "loaded"
    model_lock   \* _model_lock: the thread holding it (0: free)

ck_vars == <<ck_pc, ck_raw, ck_size, ck_overlap, ck_text, ck_n, ck_i,
             ck_out, ck_win, ck_ret>>

dc_vars == <<dc_pc, dc_args, dc_ret, dc_cache, dc_last, dc_invoked, dc_prev,
             dc_order, dc_overlap, dc_ever>>

rs_vars == <<now, registry, stores_lock, stores, th_pc, th_call, th_store,
             sw_pc, sw_cutoff, sw_to_del, returned, purged, th_mark,
             model, model_lock>>

vars == <<ck_vars, dc_vars, rs_vars>>

Min(a, b) == IF a < b THEN a ELSE b
Max(a, b) == IF a > b THEN a ELSE b

(***************************************************************************)
(* Bounds                                                                  *)
(***************************************************************************)
MaxLen == 4
MaxSize == 3
OutCap == 6
ScenarioLen == 1000
MaxCalls == 2
MaxSessions == 2
MaxThreads == 2
MaxChunks == 3
ThreadsChunks == 2
MaxDocChunks == 2
MaxTime == 2
SearchChunks == 4

(***************************************************************************)
(* Program constants                                                       *)
(***************************************************************************)
DefaultChunkSize == 800
DefaultOverlap == 120
ClaimLimit == 600
SnippetLimit == 700
EMB_DIM == 384
HitSnippetLimit == 600
DefaultK == 4
OverFetch == 3

(***************************************************************************)
(* Text                                                                    *)
(***************************************************************************)
Whitespace == {" ", "\n"}
Alphabet == {"a"} \cup Whitespace

RawTexts == UNION {[1..k -> Alphabet] : k \in 0..MaxLen}

ScenarioDoc == [k \in 1..ScenarioLen |-> "a"]

\* s[i:j] of Python for a sequence s: a negative bound counts from the end,
\* both are clamped to the sequence.
PyBound(k, len) == IF k < 0 THEN Max(k + len, 0) ELSE Min(k, len)

PySlice(s, i, j) ==
    LET a == PyBound(i, Len(s))
        b == PyBound(j, Len(s))
    IN  IF a >= b THEN <<>> ELSE SubSeq(s, a + 1, b)

\* c.strip() is non-empty
HasText(c) == \E k \in 1..Len(c) : c[k] \notin Whitespace

\* " ".join(s.split()): the words of s joined by single spaces. Position k
\* of s survives when it is no whitespace, or is the first whitespace after
\* a word that is followed by another word, and then becomes " ".
RECURSIVE Squeeze(_, _, _, _)
Squeeze(s, last, lo, hi) ==
    IF lo > hi THEN <<>>
    ELSE IF lo = hi
         THEN IF s[lo] \notin Whitespace THEN <<s[lo]>>
              ELSE IF lo > 1 /\ s[lo - 1] \notin Whitespace /\ lo < last
                   THEN <<" ">>
                   ELSE <<>>
         ELSE LET mid == (lo + hi) \div 2
              IN  Squeeze(s, last, lo, mid) \o Squeeze(s, last, mid + 1, hi)

NormalizeWhitespace(s) ==
    LET words == {k \in 1..Len(s) : s[k] \notin Whitespace}
        last == IF words = {} THEN 0
                ELSE CHOOSE k \in words : \A m \in words : m <= k
    IN  Squeeze(s, last, 1, Len(s))

(***************************************************************************)
(* _chunk_text(text, chunk_size, overlap)                                  *)
(***************************************************************************)
ChunkCall ==
    /\ ck_pc = "start"
    /\ \/ /\ ck_raw \in RawTexts
          /\ ck_size \in 1..MaxSize
          /\ ck_overlap \in 0..(ck_size - 1)
       \/ /\ ck_raw = ScenarioDoc
          /\ ck_size = DefaultChunkSize
          /\ ck_overlap = DefaultOverlap
    /\ ck_text = <<>>
    /\ ck_n = 0
    /\ ck_i = 0
    /\ ck_out = <<>>
    /\ ck_win = <<>>
    /\ ck_ret = <<>>

\* lines 93-94
ChunkNormalize ==
    /\ ck_pc = "start"
    /\ ck_text' = NormalizeWhitespace(ck_raw)
    /\ ck_n' = Len(ck_text')
    /\ ck_i' = 0
    /\ ck_out' = <<>>
    /\ ck_win' = <<>>
    /\ ck_pc' = "test"
    /\ UNCHANGED <<ck_raw, ck_size, ck_overlap, ck_ret>>

\* line 95, condition true
ChunkEnter ==
    /\ ck_pc = "test"
    /\ ck_i < ck_n
    /\ ck_pc' = "body"
    /\ UNCHANGED <<ck_raw, ck_size, ck_overlap, ck_text, ck_n, ck_i, ck_out,
                   ck_win, ck_ret>>

\* the next start index, line 100
NextStart(j, overlap) == j - overlap

\* lines 97-100
ChunkBody ==
    /\ ck_pc = "body"
    /\ LET j == Min(ck_i + ck_size, ck_n)
       IN  /\ IF Len(ck_out) < OutCap
              THEN /\ ck_out' = Append(ck_out, PySlice(ck_text, ck_i, j))
                   /\ ck_win' = Append(ck_win, <<ck_i, j>>)
              ELSE UNCHANGED <<ck_out, ck_win>>
           /\ ck_i' = NextStart(j, ck_overlap)
    /\ ck_pc' = "test"
    /\ UNCHANGED <<ck_raw, ck_size, ck_overlap, ck_text, ck_n, ck_ret>>

\* line 95, condition false, and line 102
ChunkReturn ==
    /\ ck_pc = "test"
    /\ ~(ck_i < ck_n)
    /\ ck_ret' = SelectSeq(ck_out, HasText)
    /\ ck_pc' = "done"
    /\ UNCHANGED <<ck_raw, ck_size, ck_overlap, ck_text, ck_n, ck_i, ck_out,
                   ck_win>>

(***************************************************************************)
(* DebateEngine.decide_rag_mode (services/debate_engine.py)                *)
(*                                                                         *)
(* A call runs without suspension up to the classifier call (lines 89-109) *)
(* and again from its answer to the return (lines 140-166); other calls of *)
(* the event loop run in between.                                          *)
(***************************************************************************)
Calls == 1..MaxCalls

Modes == {"persona_paraphrase", "evidence_cite", "weaponize_spin"}
CiteStyles == {"none", "inline"}

NoResult == [mode |-> "", cite_style |-> ""]
Result(m, cs) == [mode |-> m, cite_style |-> cs]

\* current_speaker and topic; "|" is the separator of line 105
SpeakerTopics ==
    { << <<"a">>, <<"b", "|", "b">> >>, << <<"a", "|", "b">>, <<"b">> >> }

Message(r, c) == [role |-> r, content |-> c]
\* a message longer than the claim context may be, after a leading blank
LongClaim == <<" ">> \o [k \in 1..(ClaimLimit + 1) |-> "a"]

\* the histories of the calls on a shared engine
EngineHistories == {<<>>, <<Message("user", <<"u">>)>>}

Histories ==
    EngineHistories
    \cup { <<Message("user", <<"u">>), Message("assistant", <<"v">>)>>,
           <<Message("user", <<"u">>), Message("assistant", <<"v">>),
             Message("User", <<"w">>)>>,
           <<Message("assistant", <<"v">>), Message("user", <<>>)>>,
           <<Message("Assistant", <<"v">>), Message("assistant", <<"x">>)>>,
           <<Message("system", <<"s">>)>>,
           <<Message("user", <<" ", "u", "\n">>)>>,
           <<Message("assistant", <<"v">>), Message("user", <<" ">>)>>,
           <<Message("user", LongClaim)>> }

Source(t, f, ci, sn) == [title |-> t, filename |-> f, chunk_index |-> ci, snippet |-> sn]
SourceLists ==
    { <<>>,
      <<Source("T", "f.txt", 0, <<"x">>)>>,
      <<Source("T", "f.txt", 0, <<"x">>), Source("", "g.txt", 1, <<"y">>)>> }

DecideArgs ==
    [speaker_topic : SpeakerTopics, history : Histories, sources : SourceLists,
     default_mode : Modes, cite_style : CiteStyles]

\* the arguments and outcomes drawn when several calls share the engine
EngineArgs ==
    {a \in DecideArgs :
        /\ a.history \in EngineHistories
        /\ Len(a.sources) <= 1
        /\ a.default_mode \in {"persona_paraphrase", "evidence_cite"}}

NoArgs ==
    [speaker_topic |-> << <<>>, <<>> >>, history |-> <<>>, sources |-> <<>>,
     default_mode |-> "", cite_style |-> ""]

\* s.strip()
RECURSIVE LStrip(_)
LStrip(s) == IF s # <<>> /\ Head(s) \in Whitespace THEN LStrip(Tail(s)) ELSE s

RECURSIVE RStrip(_)
RStrip(s) ==
    IF s # <<>> /\ s[Len(s)] \in Whitespace
    THEN RStrip(SubSeq(s, 1, Len(s) - 1)) ELSE s

Strip(s) == RStrip(LStrip(s))

\* h.get("role", "").lower(): roles are drawn in lower or capitalised form
Lower(r) ==
    CASE r = "User" -> "user"
      [] r = "Assistant" -> "assistant"
      [] OTHER -> r

\* next((h["content"] for h in reversed(history) if role matches and content), "")
LastContent(history, role) ==
    LET hits == {k \in 1..Len(history) :
                    Lower(history[k].role) = role /\ history[k].content # <<>>}
    IN  IF hits = {} THEN <<>>
        ELSE history[CHOOSE k \in hits : \A m \in hits : m <= k].content

\* Mutant of ClaimContext: the assistant's last message comes before the
\* user's.
ClaimContext_PrefersAssistant(history, topic) ==
    LET last_user == LastContent(history, "user")
        last_assistant == LastContent(history, "assistant")
        picked == IF last_assistant # <<>> THEN last_assistant
                  ELSE IF last_user # <<>> THEN last_user
                  ELSE topic
    IN  PySlice(Strip(picked), 0, ClaimLimit)

\* lines 92-94
ClaimContext(history, topic) ==
    LET last_user == LastContent(history, "user")
        last_assistant == LastContent(history, "assistant")
        picked == IF last_user # <<>> THEN last_user
                  ELSE IF last_assistant # <<>> THEN last_assistant
                  ELSE topic
    IN  PySlice(Strip(picked), 0, ClaimLimit)

\* lines 96-103
Items(sources) ==
    [k \in 1..Len(sources) |->
        [title |-> IF sources[k].title # "" THEN sources[k].title
                   ELSE IF sources[k].filename # "" THEN sources[k].filename
                   ELSE "Document",
         chunk |-> sources[k].chunk_index,
         snippet |-> PySlice(sources[k].snippet, 0, SnippetLimit)]]

\* json.dumps(items): one token per bracket, title and number, the snippet's
\* characters between quotes
RECURSIVE JsonItems(_)
JsonItems(items) ==
    IF items = <<>> THEN <<>>
    ELSE <<"{", Head(items).title, ToString(Head(items).chunk), "\"">>
         \o Head(items).snippet \o <<"\"", "}">> \o JsonItems(Tail(items))

JsonDumps(items) == <<"[">> \o JsonItems(items) \o <<"]">>

\* line 105
KeyMaterial(speaker, topic, claim_context, items) ==
    speaker \o <<"|">> \o topic \o <<"|">> \o claim_context \o <<"|">>
    \o JsonDumps(items)

\* line 106: the SHA-1 digest, taken to be collision free, is the material
CacheKey(a) ==
    KeyMaterial(a.speaker_topic[1], a.speaker_topic[2],
                ClaimContext(a.history, a.speaker_topic[2]), Items(a.sources))

\* what a call's cache key is computed from
KeyInputs(a) ==
    <<a.speaker_topic[1], a.speaker_topic[2],
      ClaimContext(a.history, a.speaker_topic[2]), Items(a.sources)>>

(***************************************************************************)
(* The classifier's outcome.  "error": the call raises, or the response    *)
(* has no choices.  "text": message.content is no JSON document, or JSON   *)
(* null/false/0/""/[]/{}, all of which line 140 turns into {}.  "array": a *)
(* non-empty JSON array (any truthy non-object).  "object": a JSON object  *)
(* whose "support" and "contradict" members are absent, a scalar (null, a  *)
(* number), a string (set() of it is its characters; a nested object gives *)
(* its keys alike) or a list of elements: integers, strings, nested lists, *)
(* floats and booleans.  json.loads gives 0.0 as a float and true as True; *)
(* in Python 0 == 0.0 == False and 1 == 1.0 == True, with equal hashes.    *)
(***************************************************************************)
IntElem(v) == [t |-> "int", v |-> v]
\* the float v.0
FloatElem(v) == [t |-> "float", v |-> v]
\* false (v = 0) and true (v = 1)
BoolElem(v) == [t |-> "bool", v |-> v]
\* the element types whose values compare equal to integers
Numeric == {"int", "float", "bool"}
StrElem == [t |-> "str", v |-> 0]
ListElem == [t |-> "list", v |-> 0]

Absent == [shape |-> "absent", elems |-> <<>>]
Scalar == [shape |-> "scalar", elems |-> <<>>]
String == [shape |-> "string", elems |-> <<StrElem>>]
List(es) == [shape |-> "list", elems |-> es]

Members ==
    { Absent, Scalar, String, List(<<IntElem(0)>>), List(<<IntElem(1)>>),
      List(<<IntElem(-1), IntElem(2), StrElem>>), List(<<ListElem>>),
      List(<<FloatElem(0)>>), List(<<BoolElem(1)>>) }

Outcome(k, s, c) == [kind |-> k, support |-> s, contradict |-> c]
NoOutcome == Outcome("none", Absent, Absent)

Outcomes ==
    {Outcome(k, Absent, Absent) : k \in {"error", "text", "array"}}
    \cup {Outcome("object", s, c) : s \in Members, c \in Members}

EngineOutcomes ==
    { Outcome("error", Absent, Absent),
      Outcome("object", List(<<IntElem(0)>>), Absent),
      Outcome("object", Absent, List(<<IntElem(0)>>)) }

\* set(meta.get(name, [])) raises TypeError for a scalar and for a list
\* holding an unhashable element
SetRaises(member) ==
    \/ member.shape = "scalar"
    \/ \E k \in 1..Len(member.elems) : member.elems[k].t = "list"

\* lines 133-147: the except branch is taken
ClassifyFails(o) ==
    \/ o.kind = "error"
    \/ o.kind = "array"
    \/ o.kind = "object" /\ (SetRaises(o.support) \/ SetRaises(o.contradict))

\* any(i in ids for i in range(len(items))), lines 149-150
HasIndex(member, n) ==
    \E i \in 0..(n - 1) :
        \E k \in 1..Len(member.elems) :
            member.elems[k].t \in Numeric /\ member.elems[k].v = i

\* Mutant of DecidedMode: a persona whose default is "evidence_cite" keeps
\* it whatever the excerpts say.
DecidedMode_KeepsCite(o, n, default_mode) ==
    IF ClassifyFails(o) \/ default_mode = "evidence_cite" THEN default_mode
    ELSE LET has_support == o.kind = "object" /\ HasIndex(o.support, n)
             has_contradict == o.kind = "object" /\ HasIndex(o.contradict, n)
         IN  IF has_support /\ ~has_contradict THEN "persona_paraphrase"
             ELSE IF has_contradict /\ ~has_support THEN "weaponize_spin"
             ELSE default_mode

\* Mutant of DecidedMode: supported claims are paraphrased whatever the
\* persona's default.
DecidedMode_AlwaysParaphrases(o, n, default_mode) ==
    IF ClassifyFails(o) THEN default_mode
    ELSE LET has_support == o.kind = "object" /\ HasIndex(o.support, n)
             has_contradict == o.kind = "object" /\ HasIndex(o.contradict, n)
         IN  IF has_support /\ ~has_contradict THEN "persona_paraphrase"
             ELSE IF has_contradict /\ ~has_support THEN "weaponize_spin"
             ELSE default_mode

\* Mutant of DecidedMode: excerpts that both support and contradict the
\* claim are spun.
DecidedMode_SpinsOnMixed(o, n, default_mode) ==
    IF ClassifyFails(o) THEN default_mode
    ELSE LET has_support == o.kind = "object" /\ HasIndex(o.support, n)
             has_contradict == o.kind = "object" /\ HasIndex(o.contradict, n)
         IN  IF has_support /\ ~has_contradict
             THEN IF default_mode # "evidence_cite" THEN "persona_paraphrase"
                  ELSE "evidence_cite"
             ELSE IF has_contradict THEN "weaponize_spin"
             ELSE default_mode

\* lines 143-166: the mode decided from the classifier's outcome
DecidedMode(o, n, default_mode) ==
    IF ClassifyFails(o) THEN default_mode
    ELSE LET has_support == o.kind = "object" /\ HasIndex(o.support, n)
             has_contradict == o.kind = "object" /\ HasIndex(o.contradict, n)
         IN  IF has_support /\ ~has_contradict
             THEN IF default_mode # "evidence_cite" THEN "persona_paraphrase"
                  ELSE "evidence_cite"
             ELSE IF has_contradict /\ ~has_support THEN "weaponize_spin"
             ELSE default_mode

\* Mutant of CachePut: the persona default is returned without being stored.
CachePut_SkipsDefault(cache, key, out) ==
    IF out.mode \in {"persona_paraphrase", "evidence_cite"} THEN cache
    ELSE [k \in DOMAIN cache \cup {key} |-> IF k = key THEN out ELSE cache[k]]

\* self.rag_decision_cache[cache_key] = out
CachePut(cache, key, out) ==
    [k \in DOMAIN cache \cup {key} |-> IF k = key THEN out ELSE cache[k]]

\* the first call in return order whose inputs are those of a
FirstReturned(a) ==
    LET same == {k \in 1..Len(dc_order) :
                    KeyInputs(dc_args[dc_order[k]]) = KeyInputs(a)}
    IN  IF same = {} THEN NoResult
        ELSE dc_ret[dc_order[CHOOSE k \in same : \A m \in same : k <= m]]

DecideIdle ==
    /\ dc_pc = [c \in Calls |-> "idle"]
    /\ dc_args = [c \in Calls |-> NoArgs]
    /\ dc_ret = [c \in Calls |-> NoResult]
    /\ dc_cache = <<>>
    /\ dc_last = [call |-> 0, outcome |-> NoOutcome]
    /\ dc_invoked = [c \in Calls |-> FALSE]
    /\ dc_prev = [c \in Calls |-> NoResult]
    /\ dc_order = <<>>
    /\ dc_overlap = FALSE
    /\ dc_ever = {}

\* Mutant of DecideNoSources: the default is stored in the cache.
DecideNoSources_Caches(c, a) ==
    /\ dc_pc[c] = "idle"
    /\ a.sources = <<>>
    /\ dc_args' = [dc_args EXCEPT ![c] = a]
    /\ dc_ret' = [dc_ret EXCEPT ![c] = Result(a.default_mode, a.cite_style)]
    /\ dc_cache' = CachePut(dc_cache, CacheKey(a), dc_ret'[c])
    /\ dc_pc' = [dc_pc EXCEPT ![c] = "done"]
    /\ dc_order' = Append(dc_order, c)
    /\ UNCHANGED <<dc_last, dc_invoked, dc_prev, dc_overlap, dc_ever>>

\* lines 89-90: no sources
DecideNoSources(c, a) ==
    /\ dc_pc[c] = "idle"
    /\ a.sources = <<>>
    /\ dc_args' = [dc_args EXCEPT ![c] = a]
    /\ dc_ret' = [dc_ret EXCEPT ![c] = Result(a.default_mode, a.cite_style)]
    /\ dc_pc' = [dc_pc EXCEPT ![c] = "done"]
    /\ dc_order' = Append(dc_order, c)
    /\ UNCHANGED <<dc_cache, dc_last, dc_invoked, dc_prev, dc_overlap, dc_ever>>

\* lines 92-109: cache hit
DecideHit(c, a) ==
    /\ dc_pc[c] = "idle"
    /\ a.sources # <<>>
    /\ CacheKey(a) \in DOMAIN dc_cache
    /\ dc_args' = [dc_args EXCEPT ![c] = a]
    /\ dc_prev' = [dc_prev EXCEPT ![c] = FirstReturned(a)]
    /\ dc_ret' = [dc_ret EXCEPT ![c] = dc_cache[CacheKey(a)]]
    /\ dc_pc' = [dc_pc EXCEPT ![c] = "done"]
    /\ dc_order' = Append(dc_order, c)
    /\ UNCHANGED <<dc_cache, dc_last, dc_invoked, dc_overlap, dc_ever>>

\* lines 92-139: cache miss, the classifier call is awaited
DecideMiss(c, a) ==
    /\ dc_pc[c] = "idle"
    /\ a.sources # <<>>
    /\ CacheKey(a) \notin DOMAIN dc_cache
    /\ dc_args' = [dc_args EXCEPT ![c] = a]
    /\ dc_prev' = [dc_prev EXCEPT ![c] = FirstReturned(a)]
    /\ dc_invoked' = [dc_invoked EXCEPT ![c] = TRUE]
    /\ dc_overlap' = (dc_overlap \/ \E d \in Calls : dc_pc[d] = "await")
    /\ dc_pc' = [dc_pc EXCEPT ![c] = "await"]
    /\ UNCHANGED <<dc_ret, dc_cache, dc_last, dc_order, dc_ever>>

\* lines 140-166: the classifier call ends with outcome o
DecideClassified(c, o) ==
    /\ dc_pc[c] = "await"
    /\ LET a == dc_args[c]
           out == Result(DecidedMode(o, Len(Items(a.sources)), a.default_mode),
                         a.cite_style)
       IN  /\ dc_cache' = CachePut(dc_cache, CacheKey(a), out)
           /\ dc_ever' = dc_ever \cup {CacheKey(a)}
           /\ dc_ret' = [dc_ret EXCEPT ![c] = out]
    /\ dc_last' = [call |-> c, outcome |-> o]
    /\ dc_pc' = [dc_pc EXCEPT ![c] = "done"]
    /\ dc_order' = Append(dc_order, c)
    /\ UNCHANGED <<dc_args, dc_invoked, dc_prev, dc_overlap>>

\* line 133: the awaiting task is cancelled; asyncio.CancelledError is a
\* BaseException, which `except Exception` does not catch
DecideCancelled(c) ==
    /\ dc_pc[c] = "await"
    /\ dc_pc' = [dc_pc EXCEPT ![c] = "raised"]
    /\ UNCHANGED <<dc_args, dc_ret, dc_cache, dc_last, dc_invoked, dc_prev,
                   dc_order, dc_overlap, dc_ever>>

(***************************************************************************)
(* In-memory store (services/rag_store.py)                                 *)
(*                                                                         *)
(* Threads call add_doc, list_docs, delete_all_for_owner, query and        *)
(* touch_session; the sweeper is one more thread.  A step is what a thread *)
(* does between two points where it may have to wait: for _STORES_LOCK,    *)
(* for a store's lock, for the embedding model.                            *)
(*                                                                         *)
(* The chunk list a document yields (line 195) is drawn with the call:     *)
(* the store operations are checked for whatever list _chunk_text hands    *)
(* back; _chunk_text itself is the subject of ChunkSpec.                   *)
(***************************************************************************)
Sessions == 1..MaxSessions
Threads == 1..MaxThreads
Sweeper == MaxThreads + 1
StoreIds == 1..(MaxSessions + MaxThreads)

\* ttl_secs of start_sweeper, in clock ticks
TtlSecs == 1

Owners == {"shared", "alice", "bob"}
AllowedLists == {<<>>, <<"bob">>}
Filename == "f.txt"
\* What an uploaded file is.  "text": text with words in it; "empty": no
\* bytes; "blank": white space only; "undecodable": bytes none of which is
\* valid UTF-8; "pdf_pages": a PDF every page of which fails in
\* extract_text(); "pdf_damaged": a .pdf file PdfReader cannot open (no
\* bytes, no PDF structure, encrypted pages).
Unreadable == {"empty", "blank", "undecodable", "pdf_pages", "pdf_damaged"}

\* line 188: filename.lower().endswith(".pdf")
IsPdf(file) == file \in {"pdf_pages", "pdf_damaged"}

\* _pdf_to_text_bytes, lines 107-109: PdfReader(BytesIO(data)) or
\* reader.pages raises, outside the try of lines 110-116
PdfReaderRaises(file) == file = "pdf_damaged"

\* _pdf_to_text_bytes, lines 108-117: a page whose extraction raises counts
\* as "", and the pages are joined with "\n"
PdfToText(file) == IF file = "pdf_pages" THEN " " ELSE "x"

\* lines 188-194: the text of the file, as far as _chunk_text tells texts
\* apart: "" (nothing), " " (white space only), "x" (words); decoding with
\* errors="ignore" drops every invalid byte
ExtractedText(file) ==
    CASE IsPdf(file) -> PdfToText(file)
      [] file \in {"empty", "undecodable"} -> ""
      [] file = "blank" -> " "
      [] OTHER -> "x"

\* the documents uploaded: a title (or none), the number of chunks
\* _chunk_text makes of the file, and what the file is
Documents ==
    {<<"", 0, f>> : f \in Unreadable}
    \cup {<<"T", 1, "text">>, <<"", MaxDocChunks, "text">>}

Chunk(o, t, f, ci, x) ==
    [owner |-> o, title |-> t, filename |-> f, chunk_index |-> ci, text |-> x]

\* the i-th piece _chunk_text returns for a document (i from 0)
Piece(i) == <<"p", ToString(i)>>

\* _embed: the vector of a text
Vec(x) == [of |-> x]

\* _embed(texts)
Embed(texts) == [k \in 1..Len(texts) |-> Vec(texts[k])]

\* faiss.IndexFlatIP(dim)
IndexFlatIP(dim) == [dim |-> dim, rows |-> <<>>]

\* Mutant of IndexAdd: the vectors do not enter the index.
IndexAdd_Skips(index, vecs) == index

\* index.add(vecs)
IndexAdd(index, vecs) == [index EXCEPT !.rows = index.rows \o vecs]

NewStore(t) ==
    [chunks |-> <<>>, index |-> IndexFlatIP(EMB_DIM), dim |-> EMB_DIM,
     last_used |-> t, lock |-> 0]

\* a store object nobody refers to
NoStore == [chunks |-> <<>>, index |-> IndexFlatIP(0), dim |-> 0,
            last_used |-> 0, lock |-> 0]

Call(op, s, o, t, n, al, k) ==
    [op |-> op, session |-> s, owner |-> o, title |-> t, pieces |-> n,
     file |-> "", allowed |-> al, k |-> k]
NoCall == Call("none", 0, "", "", 0, <<>>, 0)

\* the unreadable files, of which nothing is stored, are all uploaded by
\* one owner
AddCalls ==
    {[Call("add_doc", u[1], u[2], u[3][1], u[3][2], <<>>, 0) EXCEPT !.file = u[3][3]] :
        u \in {x \in Sessions \X Owners \X Documents :
                  x[3][3] \in Unreadable => x[2] = "alice"}}
ListCalls == {Call("list_docs", s, "", "", 0, <<>>, 0) : s \in Sessions}
DeleteCalls ==
    {Call("delete_all_for_owner", s, o, "", 0, <<>>, 0) :
        s \in Sessions, o \in Owners}
QueryCalls ==
    {Call("query", s, "", "", 0, al, k) :
        s \in Sessions, al \in AllowedLists, k \in {1, DefaultK}}
TouchCalls == {Call("touch_session", s, "", "", 0, <<>>, 0) : s \in Sessions}

Ret(kind, n, docs, hits) == [kind |-> kind, chunks |-> n, docs |-> docs, hits |-> hits]
NoRet == Ret("none", 0, <<>>, <<>>)
Raised == Ret("raised", 0, <<>>, <<>>)

\* thread t's call c returned r (or raised); `mark` is the thread's mark then
Return(t, c, r, mark) == [thread |-> t, call |-> c, ret |-> r, mark |-> mark]
NoReturn == Return(0, NoCall, NoRet, FALSE)

\* the store objects some thread or the registry refers to
Referenced(reg, held) ==
    {reg[s] : s \in Sessions} \cup {held[t] : t \in Threads}

\* objects without a reference are reclaimed
Reclaim(objs, reg, held) ==
    [st \in StoreIds |-> IF st \in Referenced(reg, held) THEN objs[st] ELSE NoStore]

FreeIds == StoreIds \ Referenced(registry, th_store)

\* chunks the session's registered store holds
Stored(s) == IF registry[s] = 0 THEN 0 ELSE Len(stores[registry[s]].chunks)

\* chunks the add_doc calls under way for the session will store
RECURSIVE PendingUpTo(_, _)
PendingUpTo(s, t) ==
    IF t = 0 THEN 0
    ELSE PendingUpTo(s, t - 1)
         + (IF /\ th_call[t].op = "add_doc"
               /\ th_call[t].session = s
            THEN th_call[t].pieces ELSE 0)
Pending(s) == PendingUpTo(s, MaxThreads)

\* the store's steps leave the rest of the program alone
Elsewhere == UNCHANGED <<ck_vars, dc_vars, model, model_lock>>

\* lines 141-143: the module is imported, no call is under way
NoStores ==
    /\ now = 0
    /\ registry = [s \in Sessions |-> 0]
    /\ stores_lock = 0
    /\ stores = [st \in StoreIds |-> NoStore]
    /\ th_pc = [t \in Threads |-> "idle"]
    /\ th_call = [t \in Threads |-> NoCall]
    /\ th_store = [t \in Threads |-> 0]
    /\ sw_cutoff = 0
    /\ sw_to_del = {}
    /\ returned = NoReturn
    /\ purged = [s \in Sessions |-> FALSE]
    /\ th_mark = [t \in Threads |-> FALSE]
    /\ model = "none"
    /\ model_lock = 0

\* start_sweeper has been called: the thread is in its first sleep
StoreInit == NoStores /\ sw_pc = "sleep"

\* the program as wired (main.py, routers/debate.py): start_sweeper is
\* imported on line 46 of the router and called nowhere
Unswept == NoStores /\ sw_pc = "unstarted"

\* time passes
Tick ==
    /\ now < MaxTime
    /\ now' = now + 1
    /\ returned' = NoReturn
    /\ Elsewhere
    /\ UNCHANGED <<registry, stores_lock, stores, th_pc, th_call, th_store,
                   sw_pc, sw_cutoff, sw_to_del, purged, th_mark>>

\* a thread enters one of the public functions; an add_doc is made while the
\* session's store has room for its chunks
Invoke(t, c, room) ==
    /\ th_pc[t] = "idle"
    /\ c.op = "add_doc" => Stored(c.session) + Pending(c.session) + c.pieces <= room
    /\ th_call' = [th_call EXCEPT ![t] = c]
    /\ th_pc' = [th_pc EXCEPT ![t] = "enter"]
    /\ th_mark' = [th_mark EXCEPT ![t] =
                      CASE c.op = "delete_all_for_owner" -> c.owner = "alice"
                        [] c.op \in {"list_docs", "query"} -> purged[c.session]
                        [] OTHER -> FALSE]
    /\ returned' = NoReturn
    /\ Elsewhere
    /\ UNCHANGED <<now, registry, stores_lock, stores, th_store, sw_pc, sw_cutoff, sw_to_del,
                   purged>>

\* `with _STORES_LOCK:` (lines 147, 164)
AcquireStoresLock(t) ==
    /\ th_pc[t] = "enter"
    /\ stores_lock = 0
    /\ stores_lock' = t
    /\ th_pc' = [th_pc EXCEPT ![t] = "registry"]
    /\ returned' = NoReturn
    /\ Elsewhere
    /\ UNCHANGED <<now, registry, stores, th_call, th_store, sw_pc, sw_cutoff, sw_to_del,
                   purged, th_mark>>

\* Mutant of GetOrCreateStore: a store is created whether or not the session
\* has one.
GetOrCreateStore_Always(t) ==
    /\ th_pc[t] = "registry"
    /\ th_call[t].op # "touch_session"
    /\ LET s == th_call[t].session IN
       \E st \in FreeIds :
          /\ \A other \in FreeIds : st <= other
          /\ stores' = [stores EXCEPT ![st] = NewStore(now)]
          /\ registry' = [registry EXCEPT ![s] = st]
          /\ th_store' = [th_store EXCEPT ![t] = st]
    /\ stores_lock' = 0
    /\ th_pc' = [th_pc EXCEPT ![t] = "store"]
    /\ returned' = NoReturn
    /\ Elsewhere
    /\ UNCHANGED <<now, th_call, sw_pc, sw_cutoff, sw_to_del, purged, th_mark>>

\* Mutant of GetOrCreateStore: _STORES_LOCK is kept when the function returns.
GetOrCreateStore_KeepsLock(t) ==
    /\ th_pc[t] = "registry"
    /\ th_call[t].op # "touch_session"
    /\ LET s == th_call[t].session IN
       IF registry[s] # 0
       THEN /\ th_store' = [th_store EXCEPT ![t] = registry[s]]
            /\ UNCHANGED <<registry, stores>>
       ELSE \E st \in FreeIds :
              /\ \A other \in FreeIds : st <= other
              /\ stores' = [stores EXCEPT ![st] = NewStore(now)]
              /\ registry' = [registry EXCEPT ![s] = st]
              /\ th_store' = [th_store EXCEPT ![t] = st]
    /\ th_pc' = [th_pc EXCEPT ![t] = "store"]
    /\ returned' = NoReturn
    /\ Elsewhere
    /\ UNCHANGED <<now, stores_lock, th_call, sw_pc, sw_cutoff, sw_to_del, purged,
                   th_mark>>

\* _get_or_create_store, lines 148-160
GetOrCreateStore(t) ==
    /\ th_pc[t] = "registry"
    /\ th_call[t].op # "touch_session"
    /\ LET s == th_call[t].session IN
       IF registry[s] # 0
       THEN /\ th_store' = [th_store EXCEPT ![t] = registry[s]]
            /\ UNCHANGED <<registry, stores>>
       ELSE \E st \in FreeIds :
              /\ \A other \in FreeIds : st <= other
              /\ stores' = [stores EXCEPT ![st] = NewStore(now)]
              /\ registry' = [registry EXCEPT ![s] = st]
              /\ th_store' = [th_store EXCEPT ![t] = st]
    /\ stores_lock' = 0
    /\ th_pc' = [th_pc EXCEPT ![t] = "store"]
    /\ returned' = NoReturn
    /\ Elsewhere
    /\ UNCHANGED <<now, th_call, sw_pc, sw_cutoff, sw_to_del, purged, th_mark>>

\* Mutant of TouchSession: a session without a store is given one.
TouchSession_Creates(t) ==
    /\ th_pc[t] = "registry"
    /\ th_call[t].op = "touch_session"
    /\ LET s == th_call[t].session IN
       IF registry[s] # 0
       THEN /\ stores' = [stores EXCEPT ![registry[s]].last_used = now]
            /\ UNCHANGED registry
       ELSE \E st \in FreeIds :
              /\ stores' = [stores EXCEPT ![st] = NewStore(now)]
              /\ registry' = [registry EXCEPT ![s] = st]
    /\ stores_lock' = 0
    /\ returned' = Return(t, th_call[t], Ret("touch_session", 0, <<>>, <<>>), FALSE)
    /\ Elsewhere
    /\ th_call' = [th_call EXCEPT ![t] = NoCall]
    /\ th_pc' = [th_pc EXCEPT ![t] = "idle"]
    /\ UNCHANGED <<now, th_store, sw_pc, sw_cutoff, sw_to_del, purged, th_mark>>

\* touch_session, lines 165-167
TouchSession(t) ==
    /\ th_pc[t] = "registry"
    /\ th_call[t].op = "touch_session"
    /\ LET s == th_call[t].session IN
       IF registry[s] # 0
       THEN stores' = [stores EXCEPT ![registry[s]].last_used = now]
       ELSE UNCHANGED stores
    /\ stores_lock' = 0
    /\ returned' = Return(t, th_call[t], Ret("touch_session", 0, <<>>, <<>>), FALSE)
    /\ Elsewhere
    /\ th_call' = [th_call EXCEPT ![t] = NoCall]
    /\ th_pc' = [th_pc EXCEPT ![t] = "idle"]
    /\ UNCHANGED <<now, registry, th_store, sw_pc, sw_cutoff, sw_to_del, purged, th_mark>>

\* the call leaves `with store["lock"]:` and returns r, or raises
Leave(t, objs, r) ==
    /\ th_store' = [th_store EXCEPT ![t] = 0]
    /\ stores' = Reclaim([objs EXCEPT ![th_store[t]].lock = 0], registry, th_store')
    /\ returned' = Return(t, th_call[t], r, th_mark[t] /\ r # Raised)
    /\ Elsewhere
    /\ th_call' = [th_call EXCEPT ![t] = NoCall]
    /\ th_pc' = [th_pc EXCEPT ![t] = "idle"]
    /\ UNCHANGED <<now, registry, stores_lock, sw_pc, sw_cutoff, sw_to_del>>

\* the call takes or keeps the store's lock and goes on to the step `pc`
Hold(t, objs, pc) ==
    /\ stores' = [objs EXCEPT ![th_store[t]].lock = t]
    /\ th_pc' = [th_pc EXCEPT ![t] = pc]
    /\ returned' = NoReturn
    /\ Elsewhere
    /\ UNCHANGED <<now, registry, stores_lock, th_call, th_store, sw_pc, sw_cutoff, sw_to_del>>

\* the marks of the threads in U are cleared
Unmark(U) == th_mark' = [u \in Threads |-> th_mark[u] /\ u \notin U]

\* the thread stands before `with store["lock"]:` and the lock is free
AtStoreLock(t, op) ==
    /\ th_pc[t] = "store"
    /\ th_call[t].op = op
    /\ stores[th_store[t]].lock = 0

\* the thread is inside `with store["lock"]:`, at the step `pc`; at "embed"
\* _get_model has returned the model (line 67)
Inside(t, op, pc) ==
    /\ th_pc[t] = pc
    /\ th_call[t].op = op
    /\ pc = "embed" => model = "loaded"

\* what a step of _get_model leaves alone
ModelFrame ==
    UNCHANGED <<ck_vars, dc_vars, now, registry, stores_lock, stores, th_call,
                th_store, sw_pc, sw_cutoff, sw_to_del, purged, th_mark>>

\* _get_model, line 58: the thread in _embed finds _model to be None and
\* goes to wait for _model_lock
SeesNoModel(t) ==
    /\ th_pc[t] = "embed"
    /\ model = "none"
    /\ th_pc' = [th_pc EXCEPT ![t] = "model"]
    /\ returned' = NoReturn
    /\ ModelFrame
    /\ UNCHANGED <<model, model_lock>>

\* _get_model, line 60: `with _model_lock:`
TakesModelLock(t) ==
    /\ th_pc[t] = "model"
    /\ model_lock = 0
    /\ model_lock' = t
    /\ th_pc' = [th_pc EXCEPT ![t] = "load"]
    /\ returned' = NoReturn
    /\ ModelFrame
    /\ UNCHANGED model

\* _get_model, lines 63-67: the model is loaded unless another thread has
\* loaded it, the lock is released
LoadsModel(t) ==
    /\ th_pc[t] = "load"
    /\ model' = "loaded"
    /\ model_lock' = 0
    /\ th_pc' = [th_pc EXCEPT ![t] = "embed"]
    /\ returned' = NoReturn
    /\ ModelFrame

\* the call leaves `with store["lock"]:` by an exception raised in _embed
Fails(t) ==
    /\ th_store' = [th_store EXCEPT ![t] = 0]
    /\ stores' = Reclaim([stores EXCEPT ![th_store[t]].lock = 0], registry, th_store')
    /\ returned' = Return(t, th_call[t], Raised, FALSE)
    /\ th_call' = [th_call EXCEPT ![t] = NoCall]
    /\ th_pc' = [th_pc EXCEPT ![t] = "idle"]
    /\ Unmark({t})
    /\ UNCHANGED <<ck_vars, dc_vars, now, registry, stores_lock, sw_pc, sw_cutoff,
                   sw_to_del, purged>>

\* _get_model, line 65: SentenceTransformer(EMB_MODEL_ID) raises; the
\* exception releases _model_lock and leaves _embed and the function
LoadFails(t) ==
    /\ th_pc[t] = "load"
    /\ model = "none"
    /\ model_lock' = 0
    /\ Fails(t)
    /\ UNCHANGED model

\* _embed raises: the exception leaves the with block and the function
EmbedFails(t) ==
    /\ th_pc[t] = "embed"
    /\ model = "loaded"
    /\ Leave(t, stores, Raised)
    /\ Unmark({t})
    /\ UNCHANGED purged

\* the title a chunk is stored under: title or filename
TitleOf(c) == IF c.title # "" THEN c.title ELSE Filename

\* add_doc, line 195: the chunks of the document; a text without a
\* non-space character normalises to "" and gives none
Chunks(c) ==
    IF ExtractedText(c.file) \in {"", " "} THEN <<>>
    ELSE [i \in 1..c.pieces |-> Piece(i - 1)]

\* add_doc, lines 204-213: the records appended
NewChunks(c, base) ==
    [i \in 1..c.pieces |->
        Chunk(c.owner, TitleOf(c), Filename, base + (i - 1), Chunks(c)[i])]

\* add_doc, lines 187-189: _pdf_to_text_bytes raises; the exception
\* leaves the with block and the function
AddDocUnreadable(t) ==
    /\ AtStoreLock(t, "add_doc")
    /\ PdfReaderRaises(th_call[t].file)
    /\ Leave(t, stores, Raised)
    /\ Unmark({t})
    /\ UNCHANGED purged

\* add_doc, lines 187-198: no chunks
AddDocEmpty(t) ==
    /\ AtStoreLock(t, "add_doc")
    /\ ~PdfReaderRaises(th_call[t].file)
    /\ Chunks(th_call[t]) = <<>>
    /\ Leave(t, [stores EXCEPT ![th_store[t]].last_used = now],
             Ret("add_doc", 0, <<>>, <<>>))
    /\ Unmark({t})
    /\ UNCHANGED purged

\* Mutant of AddDocChunked: the index takes a row per chunk before the
\* chunks are embedded.
AddDocChunked_AddsRows(t) ==
    /\ AtStoreLock(t, "add_doc")
    /\ Chunks(th_call[t]) # <<>>
    /\ Hold(t, [stores EXCEPT ![th_store[t]].index =
                    IndexAdd(@, Embed(Chunks(th_call[t])))], "embed")
    /\ UNCHANGED <<purged, th_mark>>

\* add_doc, lines 187-196: chunks to embed
AddDocChunked(t) ==
    /\ AtStoreLock(t, "add_doc")
    /\ ~PdfReaderRaises(th_call[t].file)
    /\ Chunks(th_call[t]) # <<>>
    /\ Hold(t, stores, "embed")
    /\ UNCHANGED <<purged, th_mark>>

\* add_doc, lines 200-201: the vectors enter the index
AddDocIndex(t) ==
    /\ Inside(t, "add_doc", "embed")
    /\ Hold(t, [stores EXCEPT ![th_store[t]].index =
                    IndexAdd(@, Embed(Chunks(th_call[t])))], "append")
    /\ UNCHANGED <<purged, th_mark>>

\* the threads whose mark an add_doc for "alice" in session s clears
InSession(s) == {t \in Threads : th_call[t].session = s}

\* add_doc, lines 204-216: the records enter the chunk list
AddDocAppend(t) ==
    /\ Inside(t, "add_doc", "append")
    /\ Leave(t, [stores EXCEPT
                    ![th_store[t]].chunks = @ \o NewChunks(th_call[t], Len(@)),
                    ![th_store[t]].last_used = now],
             Ret("add_doc", th_call[t].pieces, <<>>, <<>>))
    /\ IF th_call[t].owner = "alice"
       THEN /\ purged' = [purged EXCEPT ![th_call[t].session] = FALSE]
            /\ Unmark(InSession(th_call[t].session))
       ELSE /\ UNCHANGED purged
            /\ Unmark({t})

\* add_doc, lines 188-194: the text handed to _chunk_text, in characters
TextOf(file) ==
    CASE ExtractedText(file) = "" -> <<>>
      [] ExtractedText(file) = " " -> <<" ">>
      [] OTHER -> <<"a", " ", "a">>

\* add_doc, lines 187-195: inside the store's lock the text is extracted and
\* _chunk_text is called on it, chunk_size and overlap at their defaults
AddDocCallsChunkText(t) ==
    /\ AtStoreLock(t, "add_doc")
    /\ ~PdfReaderRaises(th_call[t].file)
    /\ stores' = [stores EXCEPT ![th_store[t]].lock = t]
    /\ th_pc' = [th_pc EXCEPT ![t] = "chunk"]
    /\ returned' = NoReturn
    /\ ck_pc' = "start"
    /\ ck_raw' = TextOf(th_call[t].file)
    /\ ck_size' = DefaultChunkSize
    /\ ck_overlap' = DefaultOverlap
    /\ ck_text' = <<>>
    /\ ck_n' = 0
    /\ ck_i' = 0
    /\ ck_out' = <<>>
    /\ ck_win' = <<>>
    /\ ck_ret' = <<>>
    /\ UNCHANGED <<dc_vars, model, model_lock, now, registry, stores_lock,
                   th_call, th_store, sw_pc, sw_cutoff, sw_to_del, purged,
                   th_mark>>

\* add_doc, lines 195-201: _chunk_text has returned; without chunks the call
\* returns (lines 196-198), with chunks it goes on to _embed
AddDocChunkTextReturns(t) ==
    /\ th_pc[t] = "chunk"
    /\ th_call[t].op = "add_doc"
    /\ ck_pc = "done"
    /\ IF ck_ret = <<>>
       THEN /\ Leave(t, [stores EXCEPT ![th_store[t]].last_used = now],
                     Ret("add_doc", 0, <<>>, <<>>))
            /\ Unmark({t})
            /\ UNCHANGED purged
       ELSE /\ Hold(t, stores, "embed")
            /\ UNCHANGED <<purged, th_mark>>

\* list_docs, lines 222-226: one entry per (owner, title), in order of first
\* appearance
RECURSIVE Aggregate(_)
Aggregate(chunks) ==
    IF chunks = <<>> THEN <<>>
    ELSE LET n == Len(chunks)
             agg == Aggregate(SubSeq(chunks, 1, n - 1))
             c == chunks[n]
             at == {k \in 1..Len(agg) : agg[k].owner = c.owner /\ agg[k].title = c.title}
         IN  IF at = {}
             THEN Append(agg, [title |-> c.title, owner |-> c.owner, chunks |-> 1])
             ELSE [k \in 1..Len(agg) |->
                     IF k \in at THEN [agg[k] EXCEPT !.chunks = @ + 1] ELSE agg[k]]

\* Mutant of ListDocs: an entry per chunk.
ListDocs_PerChunk(t) ==
    /\ AtStoreLock(t, "list_docs")
    /\ LET chunks == stores[th_store[t]].chunks IN
       Leave(t, [stores EXCEPT ![th_store[t]].last_used = now],
             Ret("list_docs", 0,
                 [k \in 1..Len(chunks) |->
                     [title |-> chunks[k].title, owner |-> chunks[k].owner,
                      chunks |-> 1]],
                 <<>>))
    /\ Unmark({t})
    /\ UNCHANGED purged

\* list_docs, lines 220-228
ListDocs(t) ==
    /\ AtStoreLock(t, "list_docs")
    /\ Leave(t, [stores EXCEPT ![th_store[t]].last_used = now],
             Ret("list_docs", 0, Aggregate(stores[th_store[t]].chunks), <<>>))
    /\ Unmark({t})
    /\ UNCHANGED purged

\* Mutant of Keep: the owner's chunks stay.
Keep_All(chunks, owner) == chunks

\* delete_all_for_owner, line 235
Keep(chunks, owner) == SelectSeq(chunks, LAMBDA c : c.owner # owner)

\* the texts of chunk records, line 236
Texts(chunks) == [k \in 1..Len(chunks) |-> chunks[k].text]

\* Mutant of DeleteEmbeds: the kept chunks are assigned before they are
\* embedded.
DeleteEmbeds_AssignsFirst(t) ==
    /\ AtStoreLock(t, "delete_all_for_owner")
    /\ Texts(Keep(stores[th_store[t]].chunks, th_call[t].owner)) # <<>>
    /\ Hold(t, [stores EXCEPT ![th_store[t]].chunks = Keep(@, th_call[t].owner)],
            "embed")
    /\ UNCHANGED <<purged, th_mark>>

\* delete_all_for_owner, lines 232-238: chunks remain, to be embedded
DeleteEmbeds(t) ==
    /\ AtStoreLock(t, "delete_all_for_owner")
    /\ Texts(Keep(stores[th_store[t]].chunks, th_call[t].owner)) # <<>>
    /\ Hold(t, stores, "embed")
    /\ UNCHANGED <<purged, th_mark>>

\* Mutant of DeleteRebuild: the vectors of the kept chunks are added to the
\* index as it stands.
DeleteRebuild_Appends(t) ==
    /\ Inside(t, "delete_all_for_owner", "embed")
    /\ LET vecs == Embed(Texts(Keep(stores[th_store[t]].chunks, th_call[t].owner)))
       IN  Hold(t, [stores EXCEPT ![th_store[t]].index = IndexAdd(@, vecs)], "assign")
    /\ UNCHANGED <<purged, th_mark>>

\* delete_all_for_owner, lines 240-241: the index is rebuilt
DeleteRebuild(t) ==
    /\ Inside(t, "delete_all_for_owner", "embed")
    /\ LET vecs == Embed(Texts(Keep(stores[th_store[t]].chunks, th_call[t].owner)))
       IN  Hold(t, [stores EXCEPT ![th_store[t]].index =
                       IndexAdd(IndexFlatIP(EMB_DIM), vecs)], "assign")
    /\ UNCHANGED <<purged, th_mark>>

\* delete_all_for_owner, lines 232-243: nothing remains, an empty index
DeleteEmpties(t) ==
    /\ AtStoreLock(t, "delete_all_for_owner")
    /\ Texts(Keep(stores[th_store[t]].chunks, th_call[t].owner)) = <<>>
    /\ Hold(t, [stores EXCEPT ![th_store[t]].index = IndexFlatIP(stores[th_store[t]].dim)], "assign")
    /\ UNCHANGED <<purged, th_mark>>

\* delete_all_for_owner, lines 244-245
DeleteAssign(t) ==
    /\ Inside(t, "delete_all_for_owner", "assign")
    /\ Leave(t, [stores EXCEPT
                    ![th_store[t]].chunks = Keep(@, th_call[t].owner),
                    ![th_store[t]].last_used = now],
             Ret("delete_all_for_owner", 0, <<>>, <<>>))
    /\ purged' = [purged EXCEPT ![th_call[t].session] = @ \/ th_mark[t]]
    /\ Unmark({t})

\* the sequences of m distinct elements of S
Rankings(S, m) ==
    {r \in [1..m -> S] : \A a, b \in 1..m : r[a] = r[b] => a = b}

\* index.search(qv, m), line 267: the ids of the m nearest rows, nearest first,
\* and -1 where the index has no more rows.  Which rows are nearest depends on
\* the texts; every order is a possible one.
Search(index, m) ==
    LET ntotal == Len(index.rows)
        found == Min(m, ntotal)
    IN  {[a \in 1..m |-> IF a <= found THEN r[a] ELSE -1] :
            r \in Rankings(0..(ntotal - 1), found)}

\* Python's `x in xs` for a list
In(x, xs) == \E a \in 1..Len(xs) : xs[a] = x

\* Mutant of Hidden: "shared" chunks are hidden like any other owner's.
Hidden_Unowned(allowed_owners, owner) ==
    allowed_owners # <<>> /\ ~In(owner, allowed_owners)

\* line 275: the chunk is skipped
Hidden(allowed_owners, owner) ==
    allowed_owners # <<>> /\ (~In(owner, allowed_owners) /\ owner # "shared")

\* lines 277-283
Hit(meta) ==
    [title |-> meta.title, owner |-> meta.owner, filename |-> meta.filename,
     chunk_index |-> meta.chunk_index,
     snippet |-> PySlice(meta.text, 0, HitSnippetLimit)]

\* query, lines 269-286: the loop over the ids, from position a on
RECURSIVE Scan(_, _, _, _, _, _)
Scan(chunks, ids, a, allowed_owners, k, hits) ==
    IF a > Len(ids) THEN Ret("query", 0, <<>>, hits)
    ELSE LET idx == ids[a] IN
         IF idx < 0 THEN Scan(chunks, ids, a + 1, allowed_owners, k, hits)
         ELSE IF idx >= Len(chunks) THEN Raised
         ELSE LET meta == chunks[idx + 1] IN
              IF Hidden(allowed_owners, meta.owner)
              THEN Scan(chunks, ids, a + 1, allowed_owners, k, hits)
              ELSE LET more == Append(hits, Hit(meta)) IN
                   IF Len(more) >= k THEN Ret("query", 0, <<>>, more)
                   ELSE Scan(chunks, ids, a + 1, allowed_owners, k, more)

\* Mutant of QueryEmpty: the emptiness test is skipped.
QueryEmpty_Embeds(t) ==
    /\ AtStoreLock(t, "query")
    /\ stores[th_store[t]].chunks = <<>>
    /\ Hold(t, stores, "embed")
    /\ UNCHANGED <<purged, th_mark>>

\* query, lines 262-265: an empty store
QueryEmpty(t) ==
    /\ AtStoreLock(t, "query")
    /\ stores[th_store[t]].chunks = <<>>
    /\ Leave(t, [stores EXCEPT ![th_store[t]].last_used = now],
             Ret("query", 0, <<>>, <<>>))
    /\ Unmark({t})
    /\ UNCHANGED purged

\* query, lines 262-266: the query text is to be embedded
QueryEmbeds(t) ==
    /\ AtStoreLock(t, "query")
    /\ stores[th_store[t]].chunks # <<>>
    /\ Hold(t, stores, "embed")
    /\ UNCHANGED <<purged, th_mark>>

\* query, lines 267-287
QuerySearch(t) ==
    /\ Inside(t, "query", "embed")
    /\ LET store == stores[th_store[t]]
           c == th_call[t]
       IN  \E ids \in Search(store.index, Min(c.k * OverFetch, Len(store.chunks))) :
             LET r == Scan(store.chunks, ids, 1, c.allowed, c.k, <<>>) IN
             Leave(t, IF r = Raised THEN stores
                      ELSE [stores EXCEPT ![th_store[t]].last_used = now], r)
    /\ Unmark({t})
    /\ UNCHANGED purged

\* _run, lines 301-302: the sweeper wakes and computes its cutoff
SweeperWakes ==
    /\ sw_pc = "sleep"
    /\ sw_cutoff' = now - TtlSecs
    /\ sw_pc' = "woke"
    /\ returned' = NoReturn
    /\ Elsewhere
    /\ UNCHANGED <<now, registry, stores_lock, stores, th_pc, th_call, th_store,
                   sw_to_del, purged, th_mark>>

\* _run, line 303
SweeperLocks ==
    /\ sw_pc = "woke"
    /\ stores_lock = 0
    /\ stores_lock' = Sweeper
    /\ sw_pc' = "locked"
    /\ returned' = NoReturn
    /\ Elsewhere
    /\ UNCHANGED <<now, registry, stores, th_pc, th_call, th_store, sw_cutoff, sw_to_del,
                   purged, th_mark>>

\* _run, line 304
ToDel == {s \in Sessions : registry[s] # 0 /\ stores[registry[s]].last_used < sw_cutoff}

\* _run, line 304: the stale sessions are listed
SweeperSelects ==
    /\ sw_pc = "locked"
    /\ sw_to_del' = ToDel
    /\ sw_pc' = "listed"
    /\ returned' = NoReturn
    /\ Elsewhere
    /\ UNCHANGED <<now, registry, stores_lock, stores, th_pc, th_call, th_store,
                   sw_cutoff, purged, th_mark>>

\* Mutant of SweeperSweeps: the chunk lists of the removed stores are emptied.
SweeperSweeps_Clears ==
    /\ sw_pc = "listed"
    /\ registry' = [s \in Sessions |-> IF s \in sw_to_del THEN 0 ELSE registry[s]]
    /\ stores' = Reclaim([st \in StoreIds |->
                             IF \E s \in sw_to_del : registry[s] = st
                             THEN [stores[st] EXCEPT !.chunks = <<>>]
                             ELSE stores[st]], registry', th_store)
    /\ stores_lock' = 0
    /\ sw_pc' = "sleep"
    /\ sw_cutoff' = 0
    /\ sw_to_del' = {}
    /\ returned' = NoReturn
    /\ Elsewhere
    /\ UNCHANGED <<now, th_pc, th_call, th_store, purged, th_mark>>

\* _run, lines 305-306: the listed sessions leave _STORES
SweeperSweeps ==
    /\ sw_pc = "listed"
    /\ registry' = [s \in Sessions |-> IF s \in sw_to_del THEN 0 ELSE registry[s]]
    /\ stores' = Reclaim(stores, registry', th_store)
    /\ stores_lock' = 0
    /\ sw_pc' = "sleep"
    /\ sw_cutoff' = 0
    /\ sw_to_del' = {}
    /\ returned' = NoReturn
    /\ Elsewhere
    /\ UNCHANGED <<now, th_pc, th_call, th_store, purged, th_mark>>

\* _run, lines 300-306: a statement of the loop body raises.  _run has no
\* try statement: the with block releases _STORES_LOCK if it was taken, the
\* exception leaves the while loop and the thread ends.
SweeperFails ==
    /\ sw_pc \in {"woke", "locked", "listed"}
    /\ sw_pc' = "ended"
    /\ stores_lock' = IF stores_lock = Sweeper THEN 0 ELSE stores_lock
    /\ sw_cutoff' = 0
    /\ sw_to_del' = {}
    /\ returned' = NoReturn
    /\ Elsewhere
    /\ UNCHANGED <<now, registry, stores, th_pc, th_call, th_store, purged, th_mark>>

(***************************************************************************)
(* Specifications                                                          *)
(***************************************************************************)
ChunkIdle ==
    /\ ck_pc = "done"
    /\ ck_raw = <<>>
    /\ ck_size = DefaultChunkSize
    /\ ck_overlap = DefaultOverlap
    /\ ck_text = <<>>
    /\ ck_n = 0
    /\ ck_i = 0
    /\ ck_out = <<>>
    /\ ck_win = <<>>
    /\ ck_ret = <<>>

ChunkInit == ChunkCall /\ DecideIdle /\ StoreInit

ChunkNext ==
    /\ ChunkNormalize \/ ChunkEnter \/ ChunkBody \/ ChunkReturn
    /\ UNCHANGED <<dc_vars, rs_vars>>

ChunkSpec == ChunkInit /\ [][ChunkNext]_vars

\* The interpreter runs a started call on: every enabled step is taken.
ChunkFairSpec == ChunkSpec /\ WF_vars(ChunkNext)

DecideInit == DecideIdle /\ ChunkIdle /\ StoreInit

\* one call on a fresh engine, over all arguments and classifier outcomes
DecideNext ==
    /\ \/ \E a \in DecideArgs : DecideNoSources(1, a)
       \/ \E a \in DecideArgs : DecideMiss(1, a)
       \/ \E o \in Outcomes : DecideClassified(1, o)
       \/ DecideCancelled(1)
    /\ UNCHANGED <<ck_vars, rs_vars>>

DecideSpec == DecideInit /\ [][DecideNext]_vars

\* MaxCalls calls on one engine, interleaved at the classifier call
EngineNext ==
    /\ \E c \in Calls :
          \/ \E a \in EngineArgs : DecideNoSources(c, a)
          \/ \E a \in EngineArgs : DecideHit(c, a)
          \/ \E a \in EngineArgs : DecideMiss(c, a)
          \/ \E o \in EngineOutcomes : DecideClassified(c, o)
          \/ DecideCancelled(c)
    /\ UNCHANGED <<ck_vars, rs_vars>>

EngineSpec == DecideInit /\ [][EngineNext]_vars

\* what a thread does once it has made its call
ThreadStep(t) ==
    \/ AcquireStoresLock(t)
    \/ GetOrCreateStore(t)
    \/ TouchSession(t)
    \/ SeesNoModel(t)
    \/ TakesModelLock(t)
    \/ LoadsModel(t)
    \/ LoadFails(t)
    \/ EmbedFails(t)
    \/ AddDocUnreadable(t)
    \/ AddDocEmpty(t)
    \/ AddDocChunked(t)
    \/ AddDocIndex(t)
    \/ AddDocAppend(t)
    \/ ListDocs(t)
    \/ DeleteEmbeds(t)
    \/ DeleteRebuild(t)
    \/ DeleteEmpties(t)
    \/ DeleteAssign(t)
    \/ QueryEmpty(t)
    \/ QueryEmbeds(t)
    \/ QuerySearch(t)

SweeperStep == SweeperWakes \/ SweeperLocks \/ SweeperSelects \/ SweeperSweeps

AllCalls == AddCalls \cup ListCalls \cup DeleteCalls \cup QueryCalls \cup TouchCalls

\* One client thread and the sweeper: every call on one session, one after
\* the other.
StoreCalls == {c \in AllCalls : c.session = 1}

StoreNext ==
    \/ Tick
    \/ \E c \in StoreCalls : Invoke(1, c, MaxChunks)
    \/ ThreadStep(1)
    \/ SweeperStep

\* the module as imported, nothing else of the program running
StoreStart == StoreInit /\ ChunkIdle /\ DecideIdle

StoreSpec == StoreStart /\ [][StoreNext]_vars

\* The sweeper with sweeps that may raise, beside one client thread that
\* touches and lists the sessions.
SweepCalls == {c \in TouchCalls \cup ListCalls : c.session = 1}

SweepNext ==
    \/ Tick
    \/ \E c \in SweepCalls : Invoke(1, c, MaxChunks)
    \/ AcquireStoresLock(1)
    \/ GetOrCreateStore(1)
    \/ TouchSession(1)
    \/ ListDocs(1)
    \/ SweeperStep
    \/ SweeperFails

SweepSpec == StoreStart /\ [][SweepNext]_vars

\* The process as wired: client threads that touch and list the sessions, and
\* no sweeper, none being started.
ProcessStart == Unswept /\ ChunkIdle /\ DecideIdle

ProcessNext ==
    \/ Tick
    \/ \E t \in Threads :
         \/ \E c \in SweepCalls : Invoke(t, c, MaxChunks)
         \/ AcquireStoresLock(t)
         \/ GetOrCreateStore(t)
         \/ TouchSession(t)
         \/ ListDocs(t)

ProcessSpec == ProcessStart /\ [][ProcessNext]_vars

\* Time passes and a thread that can go on does; no request has to come.
ProcessFairSpec ==
    /\ ProcessSpec
    /\ WF_vars(Tick)
    /\ \A t \in Threads :
          WF_vars(AcquireStoresLock(t) \/ GetOrCreateStore(t) \/ TouchSession(t) \/ ListDocs(t))

\* Concurrent client threads and the sweeper, on fewer documents.
ThreadsCalls ==
    {c \in StoreCalls :
        /\ c.op = "add_doc" =>
              /\ c.pieces <= 1 /\ c.owner \in {"alice", "bob"}
              /\ c.file \in {"text", "empty", "pdf_damaged"}
        /\ c.op = "delete_all_for_owner" => c.owner = "alice"
        /\ c.op = "query" => c.allowed = <<"bob">> /\ c.k = DefaultK}

ThreadsNext ==
    \/ Tick
    \/ \E t \in Threads :
         \/ \E c \in ThreadsCalls : Invoke(t, c, ThreadsChunks)
         \/ ThreadStep(t)
    \/ SweeperStep

ThreadsSpec == StoreStart /\ [][ThreadsNext]_vars

\* Two client threads, each on a session of its own, and no sweeper.
SessionsCalls(t) == {[c EXCEPT !.session = t] : c \in ThreadsCalls}

SessionsNext ==
    \E t \in Threads :
        \/ \E c \in SessionsCalls(t) : Invoke(t, c, ThreadsChunks)
        \/ ThreadStep(t)

SessionsSpec == ProcessStart /\ [][SessionsNext]_vars

\* add_doc with line 195 carried out by _chunk_text itself: client threads
\* upload to and list one session, in the program as wired (no sweeper).
IngestCalls ==
    {c \in AddCalls \cup ListCalls :
        /\ c.session = 1
        /\ c.op = "add_doc" =>
              /\ c.owner = "alice" /\ c.pieces <= 1
              /\ c.file \in {"text", "empty", "blank", "pdf_damaged"}}

\* what a thread does once it has made its call
IngestStep(t) ==
    \/ AcquireStoresLock(t)
    \/ GetOrCreateStore(t)
    \/ AddDocUnreadable(t)
    \/ AddDocCallsChunkText(t)
    \/ AddDocChunkTextReturns(t)
    \/ ListDocs(t)

IngestNext ==
    \/ \E t \in Threads : \E c \in IngestCalls : Invoke(t, c, MaxChunks)
    \/ \E t \in Threads : IngestStep(t)
    \/ ChunkNext

IngestSpec == ProcessStart /\ [][IngestNext]_vars

\* The interpreter inside _chunk_text goes on, and so does a thread that can
\* go on again and again: a lock that keeps being released is handed to the
\* thread waiting for it.  No request has to come.
IngestFairSpec ==
    /\ IngestSpec
    /\ WF_vars(ChunkNext)
    /\ \A t \in Threads : SF_vars(IngestStep(t))

\* One client thread and no sweeper, on stores of up to SearchChunks chunks:
\* more chunks than a query for one hit fetches candidates.
SearchCalls ==
    {c \in StoreCalls :
        /\ c.op = "add_doc" => c.file \in {"text", "empty", "pdf_damaged"}
        /\ c.op = "delete_all_for_owner" => c.owner = "alice"}

SearchNext ==
    \/ \E c \in SearchCalls : Invoke(1, c, SearchChunks)
    \/ ThreadStep(1)

SearchSpec == ProcessStart /\ [][SearchNext]_vars

(***************************************************************************)
(* Claims on _chunk_text                                                   *)
(***************************************************************************)

\* C3: with overlap < size (all ChunkInit draws), every call of _chunk_text
\* returns.
C3_ChunkTerminates == <>(ck_pc = "done")

ScenarioCall ==
    /\ ck_raw = ScenarioDoc
    /\ ck_size = DefaultChunkSize
    /\ ck_overlap = DefaultOverlap
    /\ ck_pc # "start"

ScenarioWindows == <<(<<0, 800>>), (<<680, 1000>>)>>

\* C4: the 1000-character document with size 800 and overlap 120 yields the
\* windows [0,800) and [680,1000) and no further one, and these two chunks
\* are what the call returns.
C4_ScenarioTwoChunks ==
    ScenarioCall =>
        /\ Len(ck_win) <= 2
        /\ \A k \in 1..Len(ck_win) : ck_win[k] = ScenarioWindows[k]
        /\ ck_pc = "done" =>
              ck_ret = <<PySlice(ck_text, 0, 800), PySlice(ck_text, 680, 1000)>>

\* C5: a text whose normalized length is between 1 and size yields exactly
\* one chunk, the normalized text.
C5_ShortTextOneChunk ==
    (ck_pc # "start" /\ ck_n >= 1 /\ ck_n <= ck_size) =>
        /\ Len(ck_out) <= 1
        /\ ck_pc = "done" => ck_ret = <<ck_text>>

\* C6: the k-th window starts at (k-1) * (size - overlap), consecutive
\* windows leave no gap, and on return the last window ends at the end of
\* the text, so that every position lies in a window.
C6_WindowsCover ==
    /\ \A k \in 1..Len(ck_win) :
          ck_win[k][1] = (k - 1) * (ck_size - ck_overlap)
    /\ \A k \in 1..(Len(ck_win) - 1) : ck_win[k + 1][1] <= ck_win[k][2]
    /\ (ck_pc = "done" /\ ck_n > 0) =>
          /\ Len(ck_win) > 0
          /\ ck_win[Len(ck_win)][2] = ck_n
          /\ \A p \in 0..(ck_n - 1) :
                \E k \in 1..Len(ck_win) : ck_win[k][1] <= p /\ p < ck_win[k][2]

(***************************************************************************)
(* Claims on decide_rag_mode                                               *)
(***************************************************************************)

Began(c) == dc_pc[c] # "idle" /\ dc_args[c].sources # <<>>

\* C7: a call that begins after a call with identical (speaker, topic, claim
\* context, snippets) has returned does not reach the classifier and, the
\* calls of the history not having overlapped, returns what that first call
\* returned; no key ever leaves the cache; of the calls that returned, at
\* most one per cache key had asked the classifier.
C7_SecondCallUsesCache ==
    /\ dc_ever \subseteq DOMAIN dc_cache
    /\ \A c \in Calls :
          (Began(c) /\ dc_prev[c] # NoResult) =>
              /\ ~dc_invoked[c]
              /\ dc_pc[c] = "done"
              /\ ~dc_overlap => dc_ret[c] = dc_prev[c]
    /\ ~dc_overlap =>
          \A c, d \in Calls :
              (c # d /\ dc_pc[c] = "done" /\ dc_pc[d] = "done"
                 /\ dc_invoked[c] /\ dc_invoked[d])
              => CacheKey(dc_args[c]) # CacheKey(dc_args[d])

\* C7 witness: a second call with the first call's inputs but another
\* default_mode has returned the first call's result from the cache.
C7_Witness ==
    \E c, d \in Calls :
        /\ c # d
        /\ dc_pc[c] = "done" /\ dc_pc[d] = "done"
        /\ dc_invoked[c] /\ ~dc_invoked[d]
        /\ KeyInputs(dc_args[c]) = KeyInputs(dc_args[d])
        /\ dc_args[c].default_mode # dc_args[d].default_mode
        /\ dc_prev[d] = dc_ret[c]
        /\ dc_ret[d] = dc_ret[c]

\* an element that equals an index of the n snippets
InRange(member, n) ==
    \E k \in 1..Len(member.elems) :
        /\ member.elems[k].t \in Numeric
        /\ member.elems[k].v >= 0
        /\ member.elems[k].v < n

\* absent, or a list of numbers and strings
ListOfScalars(member) ==
    /\ member.shape \in {"absent", "list"}
    /\ \A k \in 1..Len(member.elems) : member.elems[k].t \in Numeric \cup {"str"}

Classified(c) == dc_pc[c] = "done" /\ dc_last.call = c

OnlyContradicts(c) ==
    /\ Classified(c)
    /\ dc_last.outcome.kind = "object"
    /\ InRange(dc_last.outcome.contradict, Len(dc_args[c].sources))
    /\ ~InRange(dc_last.outcome.support, Len(dc_args[c].sources))

\* C8 as claimed: whenever the classifier's answer holds an in-range index
\* under contradict and none under support, the call returns
\* "weaponize_spin".
C8_SpinOnContradictOnly ==
    \A c \in Calls : OnlyContradicts(c) => dc_ret[c].mode = "weaponize_spin"

\* C8 as amended: the same, for answers whose support and contradict members
\* are each absent or a list of numbers and strings.
C8_SpinOnWellFormedContradictOnly ==
    \A c \in Calls :
        (/\ OnlyContradicts(c)
         /\ ListOfScalars(dc_last.outcome.support)
         /\ ListOfScalars(dc_last.outcome.contradict))
        => dc_ret[c].mode = "weaponize_spin"

\* C8 witness: a persona citing evidence by default was switched to spin,
\* the support list holding only out-of-range and non-integer elements.
C8_Witness ==
    \E c \in Calls :
        /\ OnlyContradicts(c)
        /\ dc_last.outcome.support.elems # <<>>
        /\ ListOfScalars(dc_last.outcome.support)
        /\ ListOfScalars(dc_last.outcome.contradict)
        /\ dc_args[c].default_mode = "evidence_cite"
        /\ dc_ret[c].mode = "weaponize_spin"


(***************************************************************************)
(* Claims on the store                                                     *)
(***************************************************************************)

\* index.ntotal
RowCount(store) == Len(store.index.rows)

\* the store objects the registry no longer holds
Detached == {st \in StoreIds : stores[st] # NoStore /\ \A s \in Sessions : registry[s] # st}

\* C1: every store object, registered or detached, whose lock no call holds
\* has as many chunk records as index rows.
C1_Lockstep ==
    \A st \in StoreIds :
        stores[st].lock = 0 => Len(stores[st].chunks) = RowCount(stores[st])

\* an embedding call has just failed on a detached store that holds chunks
C1_Witness ==
    /\ returned.ret = Raised
    /\ \E st \in Detached :
         /\ stores[st].lock = 0
         /\ stores[st].chunks # <<>>
         /\ \E t \in Threads : th_store[t] = st

\* the owners of a list of hits, chunks or list_docs entries
OwnersOf(xs) == {xs[a].owner : a \in 1..Len(xs)}

\* Python's list as a set
AsSet(xs) == {xs[a] : a \in 1..Len(xs)}

QueryReturned == returned.call.op = "query" /\ returned.ret # Raised

C9_WitnessList ==
    /\ returned.mark
    /\ returned.call.op = "list_docs"
    /\ returned.ret.docs # <<>>

\* the session holds one document of owner "shared" and one of owner "alice"
Scenario(chunks) ==
    LET docs == Aggregate(chunks) IN
    Len(docs) = 2 /\ OwnersOf(docs) = {"shared", "alice"}

SharedChunks(chunks) == SelectSeq(chunks, LAMBDA c : c.owner = "shared")

\* the call of thread t that returns in this step is query(s, ["bob"], k=4)
ScenarioQuery(t) ==
    /\ returned'.thread = t
    /\ returned'.call.op = "query"
    /\ returned'.call.allowed = <<"bob">>
    /\ returned'.call.k = DefaultK
    /\ returned'.ret # Raised

\* C10: on a store holding one "shared" and one "alice" document,
\* query(allowed_owners=["bob"], k=4) returns chunks of owner "shared" only,
\* and every "shared" chunk.
C10_ScenarioOnlyShared ==
    [][\A t \in Threads :
          (ScenarioQuery(t) /\ Scenario(stores[th_store[t]].chunks)) =>
              /\ OwnersOf(returned'.ret.hits) \subseteq {"shared"}
              /\ Len(returned'.ret.hits) = Len(SharedChunks(stores[th_store[t]].chunks))]_vars

\* the scenario's query has returned its "shared" hits
C10_Witness ==
    /\ QueryReturned
    /\ returned.call.allowed = <<"bob">>
    /\ returned.call.k = DefaultK
    /\ returned.ret.hits # <<>>
    /\ \E s \in Sessions : registry[s] # 0 /\ Scenario(stores[registry[s]].chunks)

\* the sweeper ends a tick in this step
TickEnds == sw_pc = "listed" /\ sw_pc' = "sleep"

\* C11: at the end of a sweeper tick every registered store whose last_used is
\* older than the tick's cutoff has left the registry, and every registered
\* store whose last_used is at or after the cutoff is still registered.
C11_TickRemovesExactlyTheStale ==
    [][TickEnds =>
          \A s \in Sessions :
              registry[s] # 0 =>
                  IF stores[registry[s]].last_used < sw_cutoff
                  THEN registry'[s] = 0
                  ELSE registry'[s] = registry[s]]_vars

\* thread t, standing before `with store["lock"]:` in a call of `op`, goes on
\* in this step
Enters(t, op) ==
    /\ th_pc[t] = "store"
    /\ th_call[t].op = op
    /\ th_pc'[t] # "store"

\* C12: a query that finds its store without chunks returns the empty list in
\* the step in which it takes the store's lock: it raises nothing and never
\* reaches the embedding call.
C12_EmptyStoreQueryReturnsEmpty ==
    [][\A t \in Threads :
          (Enters(t, "query") /\ stores[th_store[t]].chunks = <<>>) =>
              /\ th_pc'[t] = "idle"
              /\ returned'.thread = t
              /\ returned'.ret = Ret("query", 0, <<>>, <<>>)]_vars

\* a query has returned the empty list from a store that holds no chunk
C12_Witness ==
    /\ QueryReturned
    /\ returned.ret.hits = <<>>
    /\ registry[returned.call.session] # 0
    /\ stores[registry[returned.call.session]].chunks = <<>>
    /\ stores[registry[returned.call.session]].last_used = now

\* thread t's touch_session runs in this step
Touches(t) ==
    /\ th_pc[t] = "registry"
    /\ th_call[t].op = "touch_session"
    /\ th_pc'[t] = "idle"

\* C13: touch_session leaves the registry as it is, so it creates no store
\* for a session that has none; of the store objects it changes nothing but
\* the last_used of the session's registered store.
C13_TouchChangesOnlyLastUsed ==
    [][\A t \in Threads :
          Touches(t) =>
              /\ registry' = registry
              /\ \A st \in StoreIds :
                    IF st = registry[th_call[t].session]
                    THEN stores'[st] = [stores[st] EXCEPT !.last_used = now]
                    ELSE stores'[st] = stores[st]]_vars

\* touch_session has returned for a session that has no store
C13_Witness ==
    /\ returned.call.op = "touch_session"
    /\ registry[returned.call.session] = 0
    /\ stores = [st \in StoreIds |-> NoStore]

\* thread t's _get_or_create_store runs in this step
Looks(t) ==
    /\ th_pc[t] = "registry"
    /\ th_call[t].op # "touch_session"
    /\ th_pc'[t] = "store"

\* C14: a lookup hands out the store registered for the session and creates
\* one, an object nobody holds, only if the session has none; a session's
\* registry entry changes only from none to the store such a lookup creates
\* or, in a sweep, to none.  So the lookups of one session between two sweeps
\* all receive the same object.
C14_OneStorePerSession ==
    [][/\ \A t \in Threads :
            Looks(t) =>
                LET s == th_call[t].session IN
                /\ th_store'[t] # 0
                /\ th_store'[t] = registry'[s]
                /\ registry[s] # 0 => registry'[s] = registry[s]
                /\ registry[s] = 0 => th_store'[t] \notin Referenced(registry, th_store)
       /\ \A s \in Sessions :
            registry'[s] # registry[s] =>
                \/ TickEnds /\ registry'[s] = 0
                \/ registry[s] = 0 /\ \E t \in Threads : Looks(t) /\ th_call[t].session = s]_vars

\* two threads made their first access to a session together and hold the
\* same new store
C14_Witness ==
    \E t, u \in Threads :
        /\ t # u
        /\ th_pc[t] = "store" /\ th_pc[u] = "store"
        /\ th_call[t].session = th_call[u].session
        /\ th_store[t] = th_store[u]
        /\ registry[th_call[t].session] = th_store[t]
        /\ stores[th_store[t]] = NewStore(now)

\* the store locks thread or sweeper h holds
StoreLocksOf(h) == {st \in StoreIds : stores[st].lock = h}

\* C15: the sweeper holds no store's lock; no thread holds _STORES_LOCK and a
\* store's lock together, asks for _STORES_LOCK while it holds a store's lock,
\* or asks for a store's lock while it holds _STORES_LOCK; and whoever holds a
\* lock can take its next step (or waits, in _get_model, for the thread that
\* loads the model, which can), so the sweeper and the calls never wait for
\* each other in a circle.
C15_NoLockHeldAcrossTheOther ==
    /\ StoreLocksOf(Sweeper) = {}
    /\ \A t \in Threads :
          /\ stores_lock = t => StoreLocksOf(t) = {} /\ th_pc[t] = "registry"
          /\ th_pc[t] = "enter" => StoreLocksOf(t) = {}
          /\ th_pc[t] = "store" => stores_lock # t
          /\ StoreLocksOf(t) # {} =>
                \/ ENABLED ThreadStep(t)
                \/ th_pc[t] = "model" /\ model_lock \in Threads \ {t}
          /\ model_lock = t => th_pc[t] = "load" /\ ENABLED ThreadStep(t)
          /\ stores_lock = t => ENABLED ThreadStep(t)
    /\ stores_lock = Sweeper => ENABLED SweeperStep

\* the sweeper holds _STORES_LOCK while one call holds a store's lock at its
\* embedding call and another waits for _STORES_LOCK
C15_Witness ==
    /\ stores_lock = Sweeper
    /\ \E t, u \in Threads :
          /\ th_pc[t] = "embed" /\ StoreLocksOf(t) # {}
          /\ th_pc[u] = "enter"

\* a step of thread t's call that is not an exception leaving the call
CompletesNormally(t) == ThreadStep(t) /\ returned'.ret # Raised

WrongShape(member) == member.shape \in {"scalar", "string"}

\* the classifier call failed, or its answer is no JSON document, no JSON
\* object, or an object with a member of the wrong shape
Malformed(o) ==
    \/ o.kind \in {"error", "text", "array"}
    \/ o.kind = "object" /\ (WrongShape(o.support) \/ WrongShape(o.contradict))

\* C17: a call whose classifier call failed or answered something malformed
\* (no JSON, no object, support or contradict of the wrong shape) has
\* returned {default_mode, cite_style} and left exactly that under its cache
\* key; a call that began after a call with identical inputs had returned
\* did not reach the classifier and returned what that call returned.
C17_MalformedFallsBackAndIsCached ==
    /\ \A c \in Calls :
          (Classified(c) /\ Malformed(dc_last.outcome)) =>
              LET a == dc_args[c]
                  fallback == Result(a.default_mode, a.cite_style)
              IN  /\ dc_ret[c] = fallback
                  /\ CacheKey(a) \in DOMAIN dc_cache
                  /\ dc_cache[CacheKey(a)] = fallback
    /\ \A c \in Calls :
          (Began(c) /\ dc_prev[c] # NoResult) =>
              /\ ~dc_invoked[c]
              /\ dc_pc[c] = "done"
              /\ ~dc_overlap => dc_ret[c] = dc_prev[c]


\* the classifier call of c ended by raising an exception (a time-out of the
\* client among them) and c has returned
TimedOut(c) == Classified(c) /\ dc_last.outcome.kind = "error"

\* C18: no call is ended by the cancellation of its classifier call, and a
\* call whose classifier call timed out has returned {default_mode,
\* cite_style}.
C18_CancelledFallsBack ==
    \A c \in Calls :
        /\ dc_pc[c] # "raised"
        /\ TimedOut(c) =>
              dc_ret[c] = Result(dc_args[c].default_mode, dc_args[c].cite_style)


\* the chunk list and the index of every store that exists before and after
\* the step are what they were
ContentsKept ==
    \A st \in StoreIds :
        (stores[st] # NoStore /\ stores'[st] # NoStore) =>
            /\ stores'[st].chunks = stores[st].chunks
            /\ stores'[st].index = stores[st].index

\* a step of add_doc before line 202: the look-up of the store, the wait
\* for its lock, the chunking, the loading of the model, the embedding that
\* raises
BeforeIndexAdd(t) ==
    /\ th_call[t].op = "add_doc"
    /\ \/ th_pc[t] \in {"enter", "registry", "store", "model", "load"}
       \/ SeesNoModel(t)
       \/ EmbedFails(t)
    /\ ThreadStep(t)

\* _embed raises in thread t: the model cannot be loaded, or encode fails
EmbeddingRaises(t) == LoadFails(t) \/ EmbedFails(t)

\* C19: an add_doc whose embedding call raises ends there, the error being
\* what its caller gets (the call is not made again); up to that point no
\* step of the call has changed a chunk list or an index, and the store it
\* leaves has one index row per chunk record.
C19_EmbedFailureLeavesStore ==
    [][\A t \in Threads :
          /\ BeforeIndexAdd(t) => ContentsKept
          /\ (th_call[t].op = "add_doc" /\ EmbeddingRaises(t)) =>
                /\ returned' = Return(t, th_call[t], Raised, FALSE)
                /\ th_pc'[t] = "idle"
                /\ RowCount(stores[th_store[t]]) = Len(stores[th_store[t]].chunks)]_vars

\* C19 witness: an add_doc has raised in a session whose store holds chunks.
C19_Witness ==
    /\ returned.ret = Raised
    /\ returned.call.op = "add_doc"
    /\ registry[returned.call.session] # 0
    /\ stores[registry[returned.call.session]].chunks # <<>>


\* thread t, inside `with store["lock"]`, reads a file that is empty or
\* unreadable and ends its add_doc
ReadsUnreadable(t) ==
    /\ th_call[t].op = "add_doc"
    /\ th_call[t].file \in Unreadable
    /\ th_pc[t] = "store"
    /\ ThreadStep(t)

\* C20: an add_doc of an empty or unreadable file (no bytes, white space
\* only, undecodable bytes, a PDF whose pages fail, a PDF that fails as a
\* whole) returns a result of 0 chunks, does not raise, and changes no chunk
\* list and no index.
C20_UnreadableFileGivesZeroChunks ==
    [][\A t \in Threads :
          ReadsUnreadable(t) =>
              /\ returned'.thread = t
              /\ returned'.ret = Ret("add_doc", 0, <<>>, <<>>)
              /\ ContentsKept]_vars


\* C21: whatever is raised inside a sweep, the sweeper's loop has not ended:
\* the sweeper sleeps, or is at work on a tick.
C21_SweeperLoopNeverEnds == sw_pc \in {"sleep", "woke", "locked", "listed"}


\* session s has a store last used more than ttl ago, and no call on s is
\* under way
IdleTooLong(s) ==
    /\ registry[s] # 0
    /\ stores[registry[s]].last_used + TtlSecs < now
    /\ \A t \in Threads : th_call[t].session # s

\* C22: a store that has been idle for longer than ttl is removed from the
\* registry in the end, unless the session is used again.
C22_IdleStoresAreRemoved ==
    \A s \in Sessions : IdleTooLong(s) ~> (registry[s] = 0 \/ ~IdleTooLong(s))


\* thread t stands before a `with` statement whose lock thread u holds
WaitsFor(t, u) ==
    \/ th_pc[t] = "enter" /\ stores_lock = u
    \/ th_pc[t] = "store" /\ stores[th_store[t]].lock = u
    \/ th_pc[t] = "model" /\ model_lock = u

\* thread u is inside _embed (lines 119-137, _get_model included)
InEmbedding(u) == th_pc[u] \in {"embed", "model", "load"}

Listed(s, owner, title) ==
    IF registry[s] = 0 THEN 0
    ELSE Cardinality({k \in 1..Len(stores[registry[s]].chunks) :
                        /\ stores[registry[s]].chunks[k].owner = owner
                        /\ stores[registry[s]].chunks[k].title = title})

C26_OneClassificationPerKey ==
    \A c, d \in Calls :
        (/\ c # d
         /\ Began(c) /\ Began(d)
         /\ CacheKey(dc_args[c]) = CacheKey(dc_args[d]))
        => /\ ~(dc_invoked[c] /\ dc_invoked[d])
           /\ (dc_pc[c] = "done" /\ dc_pc[d] = "done") => dc_ret[c] = dc_ret[d]


\* C27: every call that has returned has returned a mode that is its own
\* default_mode, "persona_paraphrase" or "weaponize_spin", and its own
\* cite_style, whatever the earlier calls with the same key inputs passed.
C27_ResultFollowsOwnArguments ==
    \A c \in Calls :
        dc_pc[c] = "done" =>
            /\ dc_ret[c].mode \in
                  {dc_args[c].default_mode, "persona_paraphrase", "weaponize_spin"}
            /\ dc_ret[c].cite_style = dc_args[c].cite_style


\* the thread is inside `with store["lock"]:`
HoldsStoreLock(t) == th_store[t] # 0 /\ stores[th_store[t]].lock = t

\* C28: a call that has taken a store's lock releases it in the end, and a
\* call that waits for a store's lock goes on in the end, whatever the text
\* of the uploaded documents.
C28_StoreLockIsReleased ==
    \A t \in Threads :
        /\ HoldsStoreLock(t) ~> ~HoldsStoreLock(t)
        /\ (th_pc[t] = "store") ~> (th_pc[t] # "store")


\* call c begins in this step, with an empty sources list
BeginsWithoutSources(c) ==
    /\ dc_pc[c] = "idle"
    /\ dc_pc'[c] # "idle"
    /\ dc_args'[c].sources = <<>>

\* C29: a call with an empty sources list returns in the step it begins in,
\* returns its default_mode and its cite_style, does not reach the
\* classifier and leaves the decision cache as it was.
C29_NoSourcesReturnsDefault ==
    [][\A c \in Calls :
          BeginsWithoutSources(c) =>
              /\ dc_pc'[c] = "done"
              /\ dc_ret'[c] = Result(dc_args'[c].default_mode, dc_args'[c].cite_style)
              /\ ~dc_invoked'[c]
              /\ dc_invoked' = dc_invoked
              /\ dc_cache' = dc_cache]_vars

\* C29 witness: the call that returned last had no sources and returned its
\* default, while the cache holds the decision of an earlier call.
C29_Witness ==
    \E c \in Calls :
        /\ dc_order # <<>>
        /\ dc_order[Len(dc_order)] = c
        /\ dc_args[c].sources = <<>>
        /\ dc_ret[c] = Result(dc_args[c].default_mode, dc_args[c].cite_style)
        /\ ~dc_invoked[c]
        /\ dc_cache # <<>>


OnlySupports(c) ==
    /\ Classified(c)
    /\ dc_last.outcome.kind = "object"
    /\ InRange(dc_last.outcome.support, Len(dc_args[c].sources))
    /\ ~InRange(dc_last.outcome.contradict, Len(dc_args[c].sources))

\* line 153
SupportedMode(default_mode) ==
    IF default_mode = "evidence_cite" THEN "evidence_cite" ELSE "persona_paraphrase"

\* C30 as claimed: whenever the classifier's answer holds an in-range index
\* under support and none under contradict, the call returns
\* "evidence_cite" for the default "evidence_cite" and "persona_paraphrase"
\* for every other default, and the cache holds what it returned.
C30_ParaphraseOnSupportOnly ==
    \A c \in Calls :
        OnlySupports(c) =>
            /\ dc_ret[c].mode = SupportedMode(dc_args[c].default_mode)
            /\ CacheKey(dc_args[c]) \in DOMAIN dc_cache
            /\ dc_cache[CacheKey(dc_args[c])] = dc_ret[c]

\* C30 as amended: the same, for answers whose support and contradict
\* members are each absent or a list of numbers and strings.
C30_ParaphraseOnWellFormedSupportOnly ==
    \A c \in Calls :
        (/\ OnlySupports(c)
         /\ ListOfScalars(dc_last.outcome.support)
         /\ ListOfScalars(dc_last.outcome.contradict))
        => /\ dc_ret[c].mode = SupportedMode(dc_args[c].default_mode)
           /\ dc_ret[c].cite_style = dc_args[c].cite_style
           /\ CacheKey(dc_args[c]) \in DOMAIN dc_cache
           /\ dc_cache[CacheKey(dc_args[c])] = dc_ret[c]

\* C30 witness: a persona spinning by default was switched to paraphrase,
\* the contradict list holding only out-of-range and non-integer elements,
\* and the decision is in the cache.
C30_Witness ==
    \E c \in Calls :
        /\ OnlySupports(c)
        /\ dc_last.outcome.contradict.elems # <<>>
        /\ ListOfScalars(dc_last.outcome.support)
        /\ ListOfScalars(dc_last.outcome.contradict)
        /\ dc_args[c].default_mode = "weaponize_spin"
        /\ dc_ret[c].mode = "persona_paraphrase"
        /\ dc_cache[CacheKey(dc_args[c])] = dc_ret[c]

\* a persona citing evidence by default keeps doing so on support
C30_WitnessCite ==
    \E c \in Calls :
        /\ OnlySupports(c)
        /\ ListOfScalars(dc_last.outcome.contradict)
        /\ dc_args[c].default_mode = "evidence_cite"
        /\ dc_ret[c].mode = "evidence_cite"


\* the classifier's answer to call c holds an in-range index under `side`
Reports(c, side) ==
    /\ dc_last.outcome.kind = "object"
    /\ InRange(dc_last.outcome[side], Len(dc_args[c].sources))

\* C31: a call whose classifier answer holds in-range indices under both
\* support and contradict, or under neither, has returned its default_mode
\* with its cite_style, and the cache holds what it returned.
C31_DefaultOnMixedOrNeither ==
    \A c \in Calls :
        (Classified(c) /\ (Reports(c, "support") <=> Reports(c, "contradict")))
        => /\ dc_ret[c] = Result(dc_args[c].default_mode, dc_args[c].cite_style)
           /\ CacheKey(dc_args[c]) \in DOMAIN dc_cache
           /\ dc_cache[CacheKey(dc_args[c])] = dc_ret[c]

\* C31 witness: the answer held an in-range index on both sides, and the
\* persona's default came back and is in the cache.
C31_Witness ==
    \E c \in Calls :
        /\ Classified(c)
        /\ Reports(c, "support")
        /\ Reports(c, "contradict")
        /\ dc_ret[c] = Result(dc_args[c].default_mode, dc_args[c].cite_style)
        /\ dc_cache[CacheKey(dc_args[c])] = dc_ret[c]

\* the answer was an object with lists that held no in-range index
C31_WitnessNeither ==
    \E c \in Calls :
        /\ Classified(c)
        /\ dc_last.outcome.kind = "object"
        /\ dc_last.outcome.support.elems # <<>>
        /\ dc_last.outcome.contradict.elems # <<>>
        /\ ~Reports(c, "support")
        /\ ~Reports(c, "contradict")
        /\ dc_ret[c] = Result(dc_args[c].default_mode, dc_args[c].cite_style)


\* an integer that is an index of the n snippets
Usable(e, n) == e.t = "int" /\ e.v >= 0 /\ e.v < n

\* the list without its out-of-range and non-integer elements
Cleaned(member, n) ==
    IF member.shape = "list"
    THEN List(SelectSeq(member.elems, LAMBDA e : Usable(e, n)))
    ELSE member

\* C32: a call whose classifier answer is an object with support and
\* contradict each absent or a list has returned, without raising, the mode
\* it would have returned had the lists held their in-range integers only.
C32_BadIndicesAreIgnored ==
    \A c \in Calls :
        (/\ dc_last.call = c
         /\ dc_last.outcome.kind = "object"
         /\ dc_last.outcome.support.shape \in {"absent", "list"}
         /\ dc_last.outcome.contradict.shape \in {"absent", "list"})
        => LET n == Len(dc_args[c].sources)
               o == dc_last.outcome
           IN  /\ dc_pc[c] = "done"
               /\ dc_ret[c].mode =
                     DecidedMode(Outcome("object", Cleaned(o.support, n),
                                         Cleaned(o.contradict, n)),
                                 n, dc_args[c].default_mode)


\* C33: two calls that began with different (current_speaker, topic,
\* claim_context, items) have built different keys.
C33_KeyIsInjective ==
    \A c, d \in Calls :
        (/\ Began(c) /\ Began(d)
         /\ KeyInputs(dc_args[c]) # KeyInputs(dc_args[d]))
        => CacheKey(dc_args[c]) # CacheKey(dc_args[d])


\* thread t's delete_all_for_owner returns in this step
DeleteReturns(t) ==
    /\ th_call[t].op = "delete_all_for_owner"
    /\ returned'.thread = t
    /\ returned'.ret # Raised

C34_WitnessEmptied ==
    /\ returned.call.op = "delete_all_for_owner"
    /\ returned.ret # Raised
    /\ returned.mark
    /\ registry[returned.call.session] # 0
    /\ stores[registry[returned.call.session]].chunks = <<>>
    /\ stores[registry[returned.call.session]].index = IndexFlatIP(EMB_DIM)


\* a step of thread t's delete_all_for_owner on the way to its embedding
\* call, the failure of that call included
BeforeRebuild(t) ==
    /\ th_call[t].op = "delete_all_for_owner"
    /\ \/ th_pc[t] \in {"enter", "registry", "model", "load"}
       \/ DeleteEmbeds(t)
       \/ SeesNoModel(t)
       \/ EmbedFails(t)
    /\ ThreadStep(t)

\* C35: a delete_all_for_owner whose embedding call raises ends there with
\* the error; no step of the call up to that point has changed a chunk list
\* or an index, and the store it leaves has one index row per chunk record.
C35_DeleteEmbedFailureLeavesStore ==
    [][\A t \in Threads :
          /\ BeforeRebuild(t) => ContentsKept
          /\ (th_call[t].op = "delete_all_for_owner" /\ EmbeddingRaises(t)) =>
                /\ returned' = Return(t, th_call[t], Raised, FALSE)
                /\ th_pc'[t] = "idle"
                /\ registry' = registry
                /\ RowCount(stores[th_store[t]]) = Len(stores[th_store[t]].chunks)]_vars

\* C35 witness: a delete for "alice" has raised, and the session's store
\* still holds a chunk of "alice" beside another owner's, a row for each.
C35_Witness ==
    /\ returned.ret = Raised
    /\ returned.call.op = "delete_all_for_owner"
    /\ registry[returned.call.session] # 0
    /\ LET store == stores[registry[returned.call.session]]
       IN  /\ \E k \in 1..Len(store.chunks) : store.chunks[k].owner = returned.call.owner
           /\ \E k \in 1..Len(store.chunks) : store.chunks[k].owner # returned.call.owner
           /\ Len(store.index.rows) = Len(store.chunks)


\* thread t's query returns in this step
QueryReturns(t) ==
    /\ th_call[t].op = "query"
    /\ returned'.thread = t
    /\ returned'.ret # Raised

\* the chunk is one the caller may see: of an allowed owner, or "shared"
Visible(meta, allowed_owners) ==
    In(meta.owner, allowed_owners) \/ meta.owner = "shared"

\* the first up to k visible chunks among the candidates ids, as hits
FirstVisible(chunks, ids, allowed_owners, k) ==
    LET seen == SelectSeq(ids, LAMBDA i :
                    i >= 0 /\ Visible(chunks[i + 1], allowed_owners))
    IN  [a \in 1..Min(k, Len(seen)) |-> Hit(chunks[seen[a] + 1])]

RECURSIVE SumCounts(_)
SumCounts(docs) ==
    IF docs = <<>> THEN 0 ELSE Head(docs).chunks + SumCounts(Tail(docs))

\* the positions of xs whose record has this owner and title
Under(xs, owner, title) ==
    {k \in 1..Len(xs) : xs[k].owner = owner /\ xs[k].title = title}

\* C37: list_docs returns one entry for every (owner, title) pair of the
\* store's chunks and none for any other pair, each entry counting the
\* chunks of its pair; the counts add up to the length of the chunk list,
\* and a store without chunks gives the empty list.
C37_ListAggregatesByOwnerAndTitle ==
    [][\A t \in Threads :
          Enters(t, "list_docs") =>
              LET chunks == stores[th_store[t]].chunks
                  docs == returned'.ret.docs
              IN  /\ returned'.thread = t
                  /\ returned'.ret.kind = "list_docs"
                  /\ \A j \in 1..Len(chunks) :
                        Cardinality(Under(docs, chunks[j].owner, chunks[j].title)) = 1
                  /\ \A k \in 1..Len(docs) :
                        /\ docs[k].chunks >= 1
                        /\ docs[k].chunks =
                              Cardinality(Under(chunks, docs[k].owner, docs[k].title))
                  /\ SumCounts(docs) = Len(chunks)
                  /\ chunks = <<>> => docs = <<>>]_vars

\* C37 witness: list_docs has returned several entries, one of them for a
\* document of several chunks, from a store holding two documents of one
\* owner.
C37_Witness ==
    /\ returned.call.op = "list_docs"
    /\ Len(returned.ret.docs) >= 2
    /\ \E k \in 1..Len(returned.ret.docs) : returned.ret.docs[k].chunks >= 2
    /\ \E a, b \in 1..Len(returned.ret.docs) :
          /\ a # b
          /\ returned.ret.docs[a].owner = returned.ret.docs[b].owner
    /\ SumCounts(returned.ret.docs) = Len(stores[registry[returned.call.session]].chunks)


\* message k of the history is of this role and has content
Says(history, k, role) ==
    Lower(history[k].role) = role /\ history[k].content # <<>>

\* message k is the most recent one of this role that has content
MostRecent(history, k, role) ==
    /\ Says(history, k, role)
    /\ \A m \in (k + 1)..Len(history) : ~Says(history, m, role)

\* the text the claim context is taken from: the most recent user message
\* with content, else the most recent assistant message with content, else
\* the topic
Picked(history, topic, text) ==
    \/ \E k \in 1..Len(history) :
          MostRecent(history, k, "user") /\ text = history[k].content
    \/ /\ \A k \in 1..Len(history) : ~Says(history, k, "user")
       /\ \E k \in 1..Len(history) :
             MostRecent(history, k, "assistant") /\ text = history[k].content
    \/ /\ \A k \in 1..Len(history) :
             ~Says(history, k, "user") /\ ~Says(history, k, "assistant")
       /\ text = topic

\* the texts a call's claim context can come from
ContextTexts(a) == {a.history[k].content : k \in 1..Len(a.history)} \cup {a.speaker_topic[2]}

\* C38 as claimed: the claim context of a call is the picked text cut to
\* 600 characters.
C38_ClaimContextIsPickedText ==
    \A c \in Calls :
        Began(c) =>
            LET a == dc_args[c] IN
            \E text \in ContextTexts(a) :
                /\ Picked(a.history, a.speaker_topic[2], text)
                /\ ClaimContext(a.history, a.speaker_topic[2])
                      = PySlice(text, 0, ClaimLimit)

\* C38 as amended: the claim context of a call is the picked text without
\* its leading and trailing white space, cut to 600 characters.
C38_ClaimContextIsStrippedPickedText ==
    \A c \in Calls :
        Began(c) =>
            LET a == dc_args[c] IN
            /\ Len(ClaimContext(a.history, a.speaker_topic[2])) <= ClaimLimit
            /\ \E text \in ContextTexts(a) :
                  /\ Picked(a.history, a.speaker_topic[2], text)
                  /\ ClaimContext(a.history, a.speaker_topic[2])
                        = PySlice(Strip(text), 0, ClaimLimit)

\* C38 witness: a call began whose history holds a user message followed by
\* an assistant message, and its claim context is the user's.
C38_Witness ==
    \E c \in Calls :
        /\ Began(c)
        /\ Len(dc_args[c].history) = 2
        /\ MostRecent(dc_args[c].history, 1, "user")
        /\ MostRecent(dc_args[c].history, 2, "assistant")
        /\ ClaimContext(dc_args[c].history, dc_args[c].speaker_topic[2])
              = dc_args[c].history[1].content

\* a call began whose claim context is the first 600 characters of a
\* longer user message
C38_WitnessCut ==
    \E c \in Calls :
        /\ Began(c)
        /\ dc_args[c].history = <<Message("user", LongClaim)>>
        /\ Len(ClaimContext(dc_args[c].history, dc_args[c].speaker_topic[2])) = ClaimLimit

=============================================================================
